---- MODULE Spec2Model ----
(***************************************************************************)
(* A model of the photo-enhancement core of gkyle/enhance:                 *)
(*   - the operation chain of an OutputFile and the calls that change it   *)
(*     (ModelRunner.run / runOnExisting, OutputFile.reapplyStrength,       *)
(*     App.rerunOperationChain), with the cache directory and the          *)
(*     cooperative cancellation flag of the running job   (Spec), and     *)
(*     strength edits on a chain already built            (SpecReplay),    *)
(*     also after the cache sweep of a close request      (SpecSweep),     *)
(*     and the mask selections of the model dialog and of the operation    *)
(*     widgets                                            (SpecSelect),    *)
(*     and runs whose cache writes fail                   (SpecFailure);   *)
(*   - the tile processor on pixel grids                  (SpecTiles);     *)
(*   - combine_masks                                      (SpecMasks);     *)
(*   - OutputFile.applyStrengthBlending on pixel values   (SpecBlend);     *)
(*   - AppliedOperation.__init__ / supportsStrength       (SpecOps);       *)
(*   - InputFile.addMask                                  (SpecLabels);    *)
(*   - re-runs of chains with mask selections             (SpecRerun);     *)
(*   - masked operations on chains that change the size   (SpecAlign);     *)
(*   - cancellation requested while a model is loading    (SpecEarly);     *)
(*   - the model dialog accepted with several models      (SpecBatch);     *)
(*   - the strength sliders of the operation widgets      (SpecWidgets);   *)
(*   - the tile settings the model dialog offers          (SpecDialog).    *)
(*                                                                         *)
(* Fractions of the source are kept as integers: a strength or a scale is  *)
(* a percentage (0.8 is 80, 1.0 is 100), None is Null.                     *)
(***************************************************************************)
EXTENDS Integers, Sequences, FiniteSets, TLC

\* ------------------------------------------------------------------ bounds
MaxCalls == 3      \* calls (worker tasks and UI edits) in one behaviour
NumTiles == 4      \* tiles of the grid of one model run, at chain level
MaxClock == 1      \* seconds the wall clock advances (time.strftime stamps)

\* --------------------------------------------------------------- constants
Null == -1                 \* Python None for a number
DEFAULT_STRENGTH == 80     \* AppliedOperation.DEFAULT_STRENGTH = 0.8

Sharpen == "sharpen"
Denoise == "denoise"
Upscale == "upscale"
Operation == {Sharpen, Denoise, Upscale}

Max2(a, b) == IF a >= b THEN a ELSE b
Min2(a, b) == IF a <= b THEN a ELSE b

\* =========================================================================
\*  AppliedOperation  (lib/file.py)
\* =========================================================================

\* AppliedOperation.__init__: the strength an operation is created with.
InitStrength_NoUpscaleCase(operation_type, strength, scale) ==
    IF strength = Null
    THEN IF operation_type \in {Sharpen, Denoise} THEN DEFAULT_STRENGTH ELSE strength
    ELSE strength

InitStrength(operation_type, strength, scale) ==
    IF strength = Null
    THEN IF operation_type \in {Sharpen, Denoise}
         THEN DEFAULT_STRENGTH
         ELSE IF operation_type = Upscale /\ scale # Null /\ scale < 100
              THEN DEFAULT_STRENGTH
              ELSE strength
    ELSE strength

\* The cache paths: a kind, the name part built from operations, the stamp.
NoPath == [kind |-> "none", extra |-> <<>>, ts |-> 0]
BasePath == [kind |-> "base", extra |-> <<>>, ts |-> 0]

\* An image is kept as the expression that produced it: what it was computed
\* from (srcs), by which step (tag) with which parameters (p, m), and its
\* size as a multiple of the base image's size.
Image(tag, srcs, p, m, size) ==
    [tag |-> tag, srcs |-> srcs, p |-> p, m |-> m, size |-> size]
NoImage == Image("none", <<>>, <<>>, {}, 0)
BaseImage == Image("base", <<>>, <<>>, {}, 1)

\* AppliedOperation(...): modelOutput is a history field, the raw inference
\* result the operation was created from (the code keeps it only on disk, at
\* rawOutputPath, and only when supportsStrength()).
AppliedOperation(operation_type, modelPath, strength, scale, masks) ==
    [operation_type |-> operation_type,
     modelPath      |-> modelPath,
     scale          |-> scale,
     strength       |-> InitStrength(operation_type, strength, scale),
     rawOutputPath  |-> NoPath,
     masks          |-> masks,
     modelOutput    |-> NoImage]

\* AppliedOperation.supportsStrength
supportsStrength(op) ==
    \/ op.operation_type \in {Sharpen, Denoise}
    \/ (op.operation_type = Upscale /\ op.scale # Null /\ op.scale < 100)

\* AppliedOperation.getPathExtra: type, model, _s<strength%>, _d<N>X, and the
\* labels of the inside and of the outside masks. inv is the inverted flag of
\* the Mask objects the operation refers to.
getPathExtra(op, inv) ==
    <<op.operation_type,
      op.modelPath,
      IF op.strength # Null /\ op.strength < 100 THEN op.strength ELSE Null,
      IF op.scale # Null /\ op.scale < 100 THEN 100 \div op.scale ELSE Null,
      {l \in op.masks : ~inv[l]},
      {l \in op.masks : inv[l]}>>

\* =========================================================================
\*  OutputFile  (lib/file.py)
\* =========================================================================
OutputFile(path) == [path |-> path, operations |-> <<>>]

\* OutputFile.removeOperationsFrom
removeOperationsFrom_OffByOne(file, index) ==
    IF index >= 0 /\ index < Len(file.operations)
    THEN [file EXCEPT !.operations = SubSeq(file.operations, 1, index + 1)]
    ELSE file

removeOperationsFrom(file, index) ==
    IF index >= 0 /\ index < Len(file.operations)
    THEN [file EXCEPT !.operations = SubSeq(file.operations, 1, index)]
    ELSE file

\* OutputFile.addOperation
addOperation(file, op) ==
    [file EXCEPT !.operations = Append(file.operations, op)]

\* OutputFile.applyScale: cv2.resize(..., INTER_AREA) by operation.scale.
applyScale(img, op) ==
    IF op.scale = Null \/ op.scale >= 100
    THEN img
    ELSE Image("area", <<img>>, <<op.scale>>, {}, (img.size * op.scale) \div 100)

\* OutputFile.applyStrengthBlending on images: cv2.resize(inputImg, INTER_CUBIC)
\* when the shapes differ, then cv2.addWeighted.
applyStrengthBlending_SwappedWeights(img, op, inputImg) ==
    IF ~supportsStrength(op) \/ op.strength = Null \/ op.strength >= 100
    THEN img
    ELSE IF inputImg = NoImage
    THEN img
    ELSE LET sized == IF inputImg.size # img.size
                      THEN Image("cubic", <<inputImg>>, <<img.size>>, {}, img.size)
                      ELSE inputImg
         IN  Image("addWeighted", <<sized, img>>, <<op.strength>>, {}, img.size)

applyStrengthBlending(img, op, inputImg) ==
    IF ~supportsStrength(op) \/ op.strength = Null \/ op.strength >= 100
    THEN img
    ELSE IF inputImg = NoImage
    THEN img
    ELSE LET sized == IF inputImg.size # img.size
                      THEN Image("cubic", <<inputImg>>, <<img.size>>, {}, img.size)
                      ELSE inputImg
         IN  Image("addWeighted", <<img, sized>>, <<op.strength>>, {}, img.size)

\* An image given by its samples: p holds them, SamplesPerSize for each unit
\* of size.
SamplesPerSize == 2      \* samples of an image of size 1
Pixels(samples) == Image("pixels", <<>>, samples, {}, Len(samples) \div SamplesPerSize)

\* saturate_cast<uchar> of num / den: the nearest whole number, a tie going to
\* the even one (cvRound), kept in 0..255.
saturate_cast(num, den) ==
    LET q == num \div den
        r == num % den
        n == IF 2 * r > den \/ (2 * r = den /\ q % 2 = 1) THEN q + 1 ELSE q
    IN  Max2(0, Min2(255, n))

\* The samples of an image built by applyStrengthBlending from images given
\* by their samples. cv2.addWeighted(a, s, b, 1 - s, 0) is taken sample by
\* sample; cv2.resize(INTER_CUBIC) to a larger size repeats each sample,
\* which is what the interpolation gives for an image of one colour.
RECURSIVE valueOf(_)
valueOf(img) ==
    CASE img.tag = "pixels" -> img.p
      [] img.tag = "cubic" ->
            LET src == valueOf(img.srcs[1])
                k == (img.size * SamplesPerSize) \div Len(src)
            IN  [i \in 1..(img.size * SamplesPerSize) |-> src[((i - 1) \div k) + 1]]
      [] img.tag = "addWeighted" ->
            LET a == valueOf(img.srcs[1])
                b == valueOf(img.srcs[2])
                s == img.p[1]
            IN  [i \in 1..Len(a) |-> saturate_cast(s * a[i] + (100 - s) * b[i], 100)]
      [] OTHER -> <<>>

\* The files of the machine: a function from paths to image contents.
writeFile(d, path, img) ==
    [q \in (DOMAIN d) \cup {path} |-> IF q = path THEN img ELSE d[q]]

\* cv2.imread: None when there is no such file.
imread(d, path) == IF path \in DOMAIN d THEN d[path] ELSE NoImage

\* OutputFile.saveRawModelOutput: <base>_<op>_<model>_raw_<timestamp>.
rawPathOf(op, now) ==
    [kind  |-> "raw",
     extra |-> << <<op.operation_type, op.modelPath, Null, Null, {}, {}>> >>,
     ts    |-> now]

\* OutputFile.saveImageToCache: <base><pathExtra of every operation>_<timestamp>;
\* writes the image and sets the file's path. Gives <<file, disk>>.
saveImageToCache(file, img, d, now, inv) ==
    LET outpath == [kind  |-> "img",
                    extra |-> [i \in 1..Len(file.operations) |->
                                  getPathExtra(file.operations[i], inv)],
                    ts    |-> now]
    IN  <<[file EXCEPT !.path = outpath], writeFile(d, outpath, img)>>

\* The loop ending at the first operation whose raw output is not there.
RECURSIVE replayFrom_StopsAtMissing(_, _, _, _)
replayFrom_StopsAtMissing(ops, i, currentImg, d) ==
    IF i > Len(ops)
    THEN currentImg
    ELSE LET op == ops[i]
             rawImg == imread(d, op.rawOutputPath)
         IN  IF op.rawOutputPath = NoPath \/ rawImg = NoImage
             THEN currentImg
             ELSE replayFrom_StopsAtMissing(ops, i + 1,
                             applyScale(applyStrengthBlending(rawImg, op, currentImg), op),
                             d)

\* The loop of OutputFile.reapplyStrength over operations i..end: an operation
\* whose raw output is not set, not on disk or not readable is skipped.
RECURSIVE replayFrom(_, _, _, _)
replayFrom(ops, i, currentImg, d) ==
    IF i > Len(ops)
    THEN currentImg
    ELSE LET op == ops[i]
             rawImg == imread(d, op.rawOutputPath)
         IN  IF op.rawOutputPath = NoPath \/ rawImg = NoImage
             THEN replayFrom(ops, i + 1, currentImg, d)
             ELSE replayFrom(ops, i + 1,
                             applyScale(applyStrengthBlending(rawImg, op, currentImg), op),
                             d)

\* OutputFile.reapplyStrength: <<file, disk, returned value>>.
reapplyStrength_FromCurrent(file, d, now, inv) ==
    LET currentImg == imread(d, file.path)
    IN  IF currentImg = NoImage
        THEN <<file, d, FALSE>>
        ELSE LET saved == saveImageToCache(
                              file, replayFrom(file.operations, 1, currentImg, d),
                              d, now, inv)
             IN  <<saved[1], saved[2], TRUE>>

reapplyStrength(file, d, now, inv) ==
    LET currentImg == imread(d, BasePath)
    IN  IF currentImg = NoImage
        THEN <<file, d, FALSE>>
        ELSE LET saved == saveImageToCache(
                              file, replayFrom(file.operations, 1, currentImg, d),
                              d, now, inv)
             IN  <<saved[1], saved[2], TRUE>>

\* =========================================================================
\*  The application: worker pool of one thread, UI thread, cache directory
\* =========================================================================
VARIABLES
    rawFiles,   \* App.rawFiles: the OutputFiles, in order
    disk,       \* the files on disk: path -> image
    clock,      \* the wall clock, in seconds
    inverted,   \* Mask.inverted of each mask object of the base file
    pc,         \* where the worker thread is: idle, load, tiles, post
    call,       \* the call the worker thread is in
    job,        \* Observable.job of App.activeOperation
    result,     \* the call that returned last, with what it returned
    nCalls,     \* calls made so far
    tp,         \* the TileProcessor of the call to process_image under study
    fn,         \* the function under study, when one is studied by itself
    args,       \* its arguments
    ret         \* what it returned

chainVars == <<rawFiles, disk, clock, inverted, pc, call, job, result, nCalls>>
unitVars == <<tp, fn, args, ret>>

\* No TileProcessor, no function under study.
NoProcessor == [stage |-> "none"]
NotCalled == [called |-> FALSE, value |-> <<>>, edits |-> 0]
Returned(value) == [called |-> TRUE, value |-> value, edits |-> 0]
NoUnit ==
    /\ tp = NoProcessor
    /\ fn = "none"
    /\ args = <<>>
    /\ ret = NotCalled

\* The models on disk, named by their scale (ImageModelDescriptor.scale).
Models == {1, 2}
ModelScale(modelPath) == modelPath

\* The masks of the base file (InputFile.masks), by label.
MaskLabels == {1}
\* What the model dialog can start: operation, model, maintainScale, and the
\* selection of its mask selector (labels with inside/outside chosen).
RunChoices == {<<Sharpen, 1, FALSE, {}>>,
               <<Upscale, 2, FALSE, {}>>,
               <<Upscale, 2, TRUE, {}>>}
\* Positions of the strength slider that are tried.
StrengthChoices == {0, 100}

\* Job of lib/util.py; exists=FALSE is Observable.job = None.
Job(total) == [exists |-> TRUE, total |-> total, count |-> 0,
               done |-> FALSE, interrupt |-> FALSE]
NoJob == [exists |-> FALSE, total |-> 0, count |-> 0,
          done |-> FALSE, interrupt |-> FALSE]

\* Observable.updateJob
updateJob(j, increment) ==
    [j EXCEPT !.count = j.count + increment,
              !.done = (j.count + increment >= j.total)]

NoCall == [kind |-> "none", file |-> 0, operation_type |-> "none", modelPath |-> 0,
           maintainScale |-> FALSE, masks |-> {}, img |-> NoImage,
           output |-> NoImage, todo |-> <<>>, touched |-> FALSE,
           pre |-> [rawFiles |-> <<>>, disk |-> <<>>],
           startIndex |-> 0, inferred |-> <<>>]
\* streak counts the reapplyStrength calls on one file that followed each other
\* with nothing changed in between. inferred is a history field: the positions
\* in the chain of the operations the call ran a model for, in the order the
\* tile loops ended; startIndex is the argument of rerunOperationChain.
NoResult == [kind |-> "none", file |-> 0, ret |-> "none", touched |-> FALSE,
             streak |-> 0, pre |-> [rawFiles |-> <<>>, disk |-> <<>>],
             startIndex |-> 0, inferred |-> <<>>]

Snapshot == [rawFiles |-> rawFiles, disk |-> disk]

\* The UI thread runs between any two steps of the worker thread. A call of
\* the UI thread made while the worker is between its first read of the file
\* (StartJob) and its writes (Finish...) has the same effect at each of those
\* points, so it is taken at the first of them; one made before StartJob is
\* the same as one made before the worker's call.
UiMayRun == pc = "idle" \/ (pc = "tiles" /\ ~job.interrupt)

\* A UI-thread call that changes files while the worker is in a call.
Touch(c) == IF c.kind = "none" THEN c ELSE [c EXCEPT !.touched = TRUE]

\* The mask selector's getSelection: sets Mask.inverted of every selected mask.
select(inv, sel) ==
    [l \in DOMAIN inv |-> IF \E b \in BOOLEAN : <<l, b>> \in sel
                          THEN (CHOOSE b \in BOOLEAN : <<l, b>> \in sel)
                          ELSE inv[l]]
labelsOf(sel) == {x[1] : x \in sel}

\* combine_masks(masks) if masks else None, as the set of (label, inverted)
\* the combined weight field is made from.
maskKey(masks, inv) == {<<l, inv[l]>> : l \in masks}

\* TileProcessor.process_image as a whole: the model's output for an image
\* under a combined mask.
processed(modelPath, img, mkey) ==
    Image("model", <<img>>, <<modelPath>>, mkey, img.size * ModelScale(modelPath))

ChainInit ==
    /\ rawFiles = <<>>
    /\ disk = [q \in {BasePath} |-> BaseImage]
    /\ clock = 0
    /\ inverted = [l \in MaskLabels |-> FALSE]
    /\ pc = "idle"
    /\ call = NoCall
    /\ job = NoJob
    /\ result = NoResult
    /\ nCalls = 0

\* What time.strftime can give to a call made when the clock shows c: time
\* passes between the calls, and only a call that stamps a file reads it.
Now(c) == c..MaxClock

\* App.runModel up to runner.run(...): a new runner becomes activeOperation.
RunModel(choice) ==
    /\ pc = "idle"
    /\ nCalls < MaxCalls
    /\ inverted' = select(inverted, choice[4])
    /\ call' = [NoCall EXCEPT !.kind = "run",
                              !.operation_type = choice[1],
                              !.modelPath = choice[2],
                              !.maintainScale = choice[3],
                              !.masks = labelsOf(choice[4]),
                              !.pre = Snapshot]
    /\ pc' = "load"
    /\ job' = NoJob
    /\ nCalls' = nCalls + 1
    /\ UNCHANGED <<rawFiles, disk, clock, result>>
    /\ UNCHANGED unitVars

\* App.runModelOnExisting up to runner.runOnExisting(...).
RunModelOnExisting(f, choice) ==
    /\ pc = "idle"
    /\ nCalls < MaxCalls
    /\ f \in 1..Len(rawFiles)
    /\ inverted' = select(inverted, choice[4])
    /\ call' = [NoCall EXCEPT !.kind = "runOnExisting",
                              !.file = f,
                              !.operation_type = choice[1],
                              !.modelPath = choice[2],
                              !.maintainScale = choice[3],
                              !.masks = labelsOf(choice[4]),
                              !.pre = Snapshot]
    /\ pc' = "load"
    /\ job' = NoJob
    /\ nCalls' = nCalls + 1
    /\ UNCHANGED <<rawFiles, disk, clock, result>>
    /\ UNCHANGED unitVars

\* ModelRunner.run / runOnExisting after process_image returned an output:
\* scale factor, addOperation, saveRawModelOutput, applyStrengthBlending
\* against the image at inputPath, applyScale, saveImageToCache.
\* Gives <<file, disk>>.
postProcess_ScaleBeforeBlend(file, inputPath, c, d, now, inv) ==
    LET scaleFactor == IF c.maintainScale /\ ModelScale(c.modelPath) > 1
                       THEN 100 \div ModelScale(c.modelPath)
                       ELSE Null
        modelOp == [AppliedOperation(c.operation_type, c.modelPath, Null,
                                     scaleFactor, c.masks)
                       EXCEPT !.modelOutput = c.output]
        strong == supportsStrength(modelOp)
        rawPath == rawPathOf(modelOp, now)
        d1 == IF strong THEN writeFile(d, rawPath, c.output) ELSE d
        op1 == IF strong THEN [modelOp EXCEPT !.rawOutputPath = rawPath] ELSE modelOp
        scaled == applyScale(c.output, op1)
        blended == IF strong
                   THEN applyStrengthBlending(scaled, op1, imread(d1, inputPath))
                   ELSE scaled
    IN  saveImageToCache(addOperation(file, op1), blended, d1, now, inv)

postProcess(file, inputPath, c, d, now, inv) ==
    LET scaleFactor == IF c.maintainScale /\ ModelScale(c.modelPath) > 1
                       THEN 100 \div ModelScale(c.modelPath)
                       ELSE Null
        modelOp == [AppliedOperation(c.operation_type, c.modelPath, Null,
                                     scaleFactor, c.masks)
                       EXCEPT !.modelOutput = c.output]
        strong == supportsStrength(modelOp)
        rawPath == rawPathOf(modelOp, now)
        d1 == IF strong THEN writeFile(d, rawPath, c.output) ELSE d
        op1 == IF strong THEN [modelOp EXCEPT !.rawOutputPath = rawPath] ELSE modelOp
        blended == IF strong
                   THEN applyStrengthBlending(c.output, op1, imread(d1, inputPath))
                   ELSE c.output
    IN  saveImageToCache(addOperation(file, op1), applyScale(blended, op1), d1, now, inv)

\* ModelRunner.run: the new OutputFile(None, inFile) of the base file.
runPost(c, d, now, inv) == postProcess(OutputFile(NoPath), BasePath, c, d, now, inv)

\* ModelRunner.runOnExisting: the operation is appended to outputFile.
runOnExistingPost(file, c, d, now, inv) == postProcess(file, file.path, c, d, now, inv)

\* The image a call's runner reads: run reads inFile.path, runOnExisting (also
\* inside rerunOperationChain) reads outputFile.path.
inputPathOf(c) == IF c.kind = "run" THEN BasePath ELSE rawFiles[c.file].path

\* run / runOnExisting from the model load to TileProcessor.process_tiles'
\* startJob: the masks are combined, the image is read, the job is created.
StartJob ==
    /\ pc = "load"
    /\ imread(disk, inputPathOf(call)) # NoImage
    /\ call' = [call EXCEPT !.img = imread(disk, inputPathOf(call)),
                            !.output = processed(call.modelPath,
                                                 imread(disk, inputPathOf(call)),
                                                 maskKey(call.masks, inverted))]
    /\ job' = Job(NumTiles)
    /\ pc' = "tiles"
    /\ UNCHANGED <<rawFiles, disk, clock, inverted, result, nCalls>>
    /\ UNCHANGED unitVars

\* The place in the chain of the operation a call's runner is working on.
chainPosition(c) ==
    IF c.kind = "run" THEN 1 ELSE Len(rawFiles[c.file].operations) + 1

\* The tile loop of process_tiles runs to its end: no pass found an interrupt,
\* every tile called updateJob(1), and process_image returns the output. (The
\* loop itself, tile by tile, is TileSkipped and TileInferred of SpecTiles; here a
\* call sees only whether it ended with an output or with None.)
TilesDone ==
    /\ pc = "tiles"
    /\ ~job.interrupt
    /\ job' = updateJob(job, job.total - job.count)
    /\ call' = [call EXCEPT !.inferred = Append(@, chainPosition(call))]
    /\ pc' = "post"
    /\ UNCHANGED <<rawFiles, disk, clock, inverted, result, nCalls>>
    /\ UNCHANGED unitVars

\* What a call returns when process_image gave None.
cancelledReturn(c) == IF c.kind = "rerun" THEN "false" ELSE "none"

\* TileCancel done wrongly: the cancelled call leaves the operation appended.
TileCancel_Appends ==
    /\ pc = "tiles"
    /\ job.interrupt
    /\ result' = [kind |-> call.kind, file |-> call.file, ret |-> cancelledReturn(call),
                  touched |-> call.touched, streak |-> 0, pre |-> call.pre,
                  startIndex |-> call.startIndex, inferred |-> call.inferred]
    /\ rawFiles' = IF call.kind = "run"
                   THEN Append(rawFiles, addOperation(OutputFile(NoPath),
                            AppliedOperation(call.operation_type, call.modelPath,
                                             Null, Null, call.masks)))
                   ELSE [rawFiles EXCEPT ![call.file] =
                            addOperation(@,
                            AppliedOperation(call.operation_type, call.modelPath,
                                             Null, Null, call.masks))]
    /\ pc' = "idle"
    /\ call' = NoCall
    /\ UNCHANGED <<disk, clock, inverted, job, nCalls>>
    /\ UNCHANGED unitVars

\* The tile loop finds shouldInterrupt(): process_tiles, process_image and the
\* runner return None; App.runModel / runModelOnExisting return None and
\* App.rerunOperationChain returns False.
TileCancel ==
    /\ pc = "tiles"
    /\ job.interrupt
    /\ result' = [kind |-> call.kind, file |-> call.file, ret |-> cancelledReturn(call),
                  touched |-> call.touched, streak |-> 0, pre |-> call.pre,
                  startIndex |-> call.startIndex, inferred |-> call.inferred]
    /\ pc' = "idle"
    /\ call' = NoCall
    /\ UNCHANGED <<rawFiles, disk, clock, inverted, job, nCalls>>
    /\ UNCHANGED unitVars

\* App.interruptOperation on a runner whose job exists. (Once the tile loop
\* has ended nothing reads the flag of the runner's job any more.)
RequestInterrupt ==
    /\ pc = "tiles"
    /\ job.exists
    /\ ~job.interrupt
    /\ job' = [job EXCEPT !.interrupt = TRUE]
    /\ UNCHANGED <<rawFiles, disk, clock, inverted, pc, call, result, nCalls>>
    /\ UNCHANGED unitVars

\* ModelRunner.run returns the new OutputFile; App.runModel appends it.
FinishRun ==
    \E now \in Now(clock) :
        /\ clock' = now
        /\ pc = "post"
        /\ call.kind = "run"
        /\ LET r == runPost(call, disk, now, inverted)
           IN  /\ rawFiles' = Append(rawFiles, r[1])
               /\ disk' = r[2]
               /\ result' = [kind |-> "run", file |-> Len(rawFiles) + 1, ret |-> "file",
                             touched |-> call.touched, streak |-> 0, pre |-> call.pre,
                             startIndex |-> call.startIndex, inferred |-> call.inferred]
        /\ pc' = "idle"
        /\ call' = NoCall
        /\ UNCHANGED <<inverted, job, nCalls>>
        /\ UNCHANGED unitVars

\* ModelRunner.runOnExisting returns the updated outputFile.
FinishRunOnExisting ==
    \E now \in Now(clock) :
        /\ clock' = now
        /\ pc = "post"
        /\ call.kind = "runOnExisting"
        /\ LET r == runOnExistingPost(rawFiles[call.file], call, disk, now, inverted)
           IN  /\ rawFiles' = [rawFiles EXCEPT ![call.file] = r[1]]
               /\ disk' = r[2]
               /\ result' = [kind |-> "runOnExisting", file |-> call.file, ret |-> "file",
                             touched |-> call.touched, streak |-> 0, pre |-> call.pre,
                             startIndex |-> call.startIndex, inferred |-> call.inferred]
        /\ pc' = "idle"
        /\ call' = NoCall
        /\ UNCHANGED <<inverted, job, nCalls>>
        /\ UNCHANGED unitVars

\* App.rerunOperationChain before its loop: the operations from startIndex on
\* are taken off the file, and the file's path is reset, to a copy of the base
\* file (startIndex = 0) or by reapplyStrength over the operations that are
\* left. Gives <<file, disk, opsToRerun>>.
rerunStart_RerunsAll(file, startIndex, d, now, inv) ==
    LET opsToRerun == file.operations
        cut == removeOperationsFrom(file, startIndex)
        newPath == [kind |-> "reset", extra |-> <<>>, ts |-> now]
    IN  IF startIndex = 0
        THEN <<[cut EXCEPT !.path = newPath],
               writeFile(d, newPath, imread(d, BasePath)),
               opsToRerun>>
        ELSE LET r == reapplyStrength(cut, d, now, inv)
             IN  <<r[1], r[2], opsToRerun>>

rerunStart(file, startIndex, d, now, inv) ==
    LET opsToRerun == SubSeq(file.operations, startIndex + 1, Len(file.operations))
        cut == removeOperationsFrom(file, startIndex)
        newPath == [kind |-> "reset", extra |-> <<>>, ts |-> now]
    IN  IF startIndex = 0
        THEN <<[cut EXCEPT !.path = newPath],
               writeFile(d, newPath, imread(d, BasePath)),
               opsToRerun>>
        ELSE LET r == reapplyStrength(cut, d, now, inv)
             IN  <<r[1], r[2], opsToRerun>>

\* The runner App.rerunOperationChain makes for one operation it re-runs.
rerunCall(c, todo) ==
    [c EXCEPT !.todo = todo,
              !.operation_type = todo[1].operation_type,
              !.modelPath = todo[1].modelPath,
              !.maintainScale = (todo[1].scale # Null /\ todo[1].scale < 100),
              !.masks = todo[1].masks,
              !.img = NoImage,
              !.output = NoImage]

rerunStep_LeavesStrength(file, c, d, now, inv) ==
    LET r == runOnExistingPost(file, c, d, now, inv)
    IN  <<r[1], r[2]>>

\* One pass of the loop of App.rerunOperationChain after runOnExisting gave a
\* result: the original strength is put on the new operation and
\* reapplyStrength is called. Gives <<file, disk>>.
rerunStep(file, c, d, now, inv) ==
    LET r == runOnExistingPost(file, c, d, now, inv)
        op == c.todo[1]
        n == Len(r[1].operations)
        newOp == r[1].operations[n]
    IN  IF supportsStrength(newOp) /\ op.strength # Null
        THEN LET f2 == [r[1] EXCEPT !.operations[n].strength = op.strength]
                 r2 == reapplyStrength(f2, r[2], now, inv)
             IN  <<r2[1], r2[2]>>
        ELSE <<r[1], r[2]>>

\* App.rerunOperationChain(compareFile, startIndex) up to its first runner.
RerunOperationChain(f, startIndex) ==
    \E now \in Now(clock) :
        /\ clock' = now
        /\ pc = "idle"
        /\ nCalls < MaxCalls
        /\ f \in 1..Len(rawFiles)
        /\ startIndex \in 0..(Len(rawFiles[f].operations) - 1)
        /\ LET r == rerunStart(rawFiles[f], startIndex, disk, now, inverted)
           IN  /\ rawFiles' = [rawFiles EXCEPT ![f] = r[1]]
               /\ disk' = r[2]
               /\ call' = rerunCall([NoCall EXCEPT !.kind = "rerun", !.file = f,
                                                   !.pre = Snapshot,
                                                   !.startIndex = startIndex], r[3])
        /\ pc' = "load"
        /\ job' = NoJob
        /\ result' = [result EXCEPT !.touched = TRUE]
        /\ nCalls' = nCalls + 1
        /\ UNCHANGED inverted
        /\ UNCHANGED unitVars

\* The loop of App.rerunOperationChain goes on to its next operation, with a
\* new runner, or the call returns True.
FinishRerunStep ==
    \E now \in Now(clock) :
        /\ clock' = now
        /\ pc = "post"
        /\ call.kind = "rerun"
        /\ LET r == rerunStep(rawFiles[call.file], call, disk, now, inverted)
               rest == Tail(call.todo)
           IN  /\ rawFiles' = [rawFiles EXCEPT ![call.file] = r[1]]
               /\ disk' = r[2]
               /\ IF rest = <<>>
                  THEN /\ result' = [kind |-> "rerun", file |-> call.file, ret |-> "true",
                                     touched |-> call.touched, streak |-> 0, pre |-> call.pre,
                                     startIndex |-> call.startIndex, inferred |-> call.inferred]
                       /\ pc' = "idle"
                       /\ call' = NoCall
                       /\ job' = job
                  ELSE /\ result' = [result EXCEPT !.touched = TRUE]
                       /\ pc' = "load"
                       /\ call' = rerunCall(call, rest)
                       /\ job' = NoJob
        /\ UNCHANGED <<inverted, nCalls>>
        /\ UNCHANGED unitVars

\* Ui_AppWindow._applyStrengthChanges for one moved slider (UI thread): the
\* operation's strength is set and reapplyStrength is called.
ApplyStrengthChanges(f, i, newStrength) ==
    \E now \in Now(clock) :
        /\ clock' = now
        /\ UiMayRun
        /\ nCalls < MaxCalls
        /\ f \in 1..Len(rawFiles)
        /\ i \in 1..Len(rawFiles[f].operations)
        /\ supportsStrength(rawFiles[f].operations[i])
        /\ rawFiles[f].operations[i].strength # newStrength
        /\ LET r == reapplyStrength(
                        [rawFiles[f] EXCEPT !.operations[i].strength = newStrength],
                        disk, now, inverted)
           IN  /\ rawFiles' = [rawFiles EXCEPT ![f] = r[1]]
               /\ disk' = r[2]
               /\ result' = [kind |-> "applyStrengthChanges", file |-> f,
                             ret |-> IF r[3] THEN "true" ELSE "false",
                             touched |-> FALSE, streak |-> 0, pre |-> Snapshot,
                             startIndex |-> 0, inferred |-> <<>>]
        /\ call' = Touch(call)
        /\ nCalls' = nCalls + 1
        /\ UNCHANGED <<inverted, pc, job>>
        /\ UNCHANGED unitVars

\* OutputFile.reapplyStrength called as it is, with nothing changed before.
ReapplyStrength(f) ==
    \E now \in Now(clock) :
        /\ clock' = now
        /\ UiMayRun
        /\ nCalls < MaxCalls
        /\ f \in 1..Len(rawFiles)
        /\ LET r == reapplyStrength(rawFiles[f], disk, now, inverted)
           IN  /\ rawFiles' = [rawFiles EXCEPT ![f] = r[1]]
               /\ disk' = r[2]
               /\ result' = [kind |-> "reapplyStrength", file |-> f,
                             ret |-> IF r[3] THEN "true" ELSE "false",
                             touched |-> FALSE,
                             streak |-> IF /\ result.kind = "reapplyStrength"
                                           /\ result.file = f
                                           /\ ~result.touched
                                        THEN result.streak + 1
                                        ELSE 1,
                             pre |-> Snapshot,
                             startIndex |-> 0, inferred |-> <<>>]
        /\ call' = Touch(call)
        /\ nCalls' = nCalls + 1
        /\ UNCHANGED <<inverted, pc, job>>
        /\ UNCHANGED unitVars

\* App.clearCacheExpiredFiles: every file of .cache/ whose modification time
\* is more than 7 days before now is removed, referred to by a chain or not.
\* The clock of the model keeps the order of the seconds and whether two
\* stamps are the same second, not the distance between them: for a sweep at
\* second now the files older than 7 days are those stamped before some second
\* cutoff <= now.
clearCacheExpiredFiles(d, cutoff) ==
    [q \in {x \in DOMAIN d : x.kind = "base" \/ x.ts >= cutoff} |-> d[q]]

\* Ui_AppWindow.closeEvent in a session with unsaved files, the question
\* answered No: cancelOp, then the sweep, then event.ignore() and the
\* application goes on.
closeEvent ==
    \E cutoff \in {q.ts : q \in DOMAIN disk} :
        /\ cutoff <= clock
        /\ UiMayRun
        /\ nCalls < MaxCalls
        /\ Len(rawFiles) > 0
        /\ job.exists
        /\ job' = [job EXCEPT !.interrupt = TRUE]
        /\ disk' = clearCacheExpiredFiles(disk, cutoff)
        /\ call' = Touch(call)
        /\ result' = [result EXCEPT !.touched = TRUE]
        /\ nCalls' = nCalls + 1
        /\ UNCHANGED <<rawFiles, clock, inverted, pc>>
        /\ UNCHANGED unitVars

ChainNext ==
    \/ \E choice \in RunChoices : RunModel(choice)
    \/ \E f \in 1..Len(rawFiles), choice \in RunChoices :
          RunModelOnExisting(f, choice)
    \/ \E f \in 1..Len(rawFiles), i \in 0..MaxCalls : RerunOperationChain(f, i)
    \/ StartJob
    \/ TilesDone
    \/ TileCancel
    \/ RequestInterrupt
    \/ FinishRun
    \/ FinishRunOnExisting
    \/ FinishRerunStep
    \/ \E f \in 1..Len(rawFiles), i \in 1..MaxCalls, s \in StrengthChoices :
          ApplyStrengthChanges(f, i, s)
    \/ \E f \in 1..Len(rawFiles) : ReapplyStrength(f)

vars == <<chainVars, unitVars>>
Init == ChainInit /\ NoUnit
Next == ChainNext
Spec == Init /\ [][Next]_vars

\* =========================================================================
\*  Mask selections: the model dialog and the selector of an operation
\*  (SpecSelect)
\* =========================================================================

\* What a mask selector can hold when it closes: for every mask, not selected,
\* selected inside, or selected outside.
Selections ==
    {sel \in SUBSET (MaskLabels \X BOOLEAN) :
        \A x \in sel, y \in sel : x[1] = y[1] => x = y}

\* The model dialog with a mask selection.
MaskRunChoices == {<<Sharpen, 1, FALSE, sel>> : sel \in Selections}

\* The selector of operation i of file f closes with selection sel (operation
\* widget, UI thread). MaskPopupFrame.hideEvent emits only when its key
\* (label, selected, inside/outside of every mask) is not the one it opened
\* with (the popup is taken to open showing operation.masks with the flags the
\* Mask objects have then); getSelection then writes Mask.inverted of every
\* selected mask and gives the Mask objects;
\* Ui_AppWindow._onOperationMasksChanged compares the
\* (label, inverted) pairs of operation.masks with those of the selection,
\* both read from the Mask objects as they are now, returns when they are
\* equal, and otherwise sets operation.masks and has the chain re-run from the
\* operation (App.rerunOperationChain, up to its first runner).
OnOperationMasksChanged(f, i, sel) ==
    \E now \in Now(clock) :
        /\ pc = "idle"
        /\ nCalls < MaxCalls
        /\ f \in 1..Len(rawFiles)
        /\ i \in 1..Len(rawFiles[f].operations)
        /\ sel # maskKey(rawFiles[f].operations[i].masks, inverted)
        /\ inverted' = select(inverted, sel)
        /\ nCalls' = nCalls + 1
        /\ LET operation == rawFiles[f].operations[i]
               masks == labelsOf(sel)
               currentMaskKey == maskKey(operation.masks, inverted')
               newMaskKey == maskKey(masks, inverted')
               event == [NoResult EXCEPT !.kind = "onOperationMasksChanged",
                                         !.file = f,
                                         !.startIndex = i - 1,
                                         !.pre = Snapshot]
           IN  IF currentMaskKey = newMaskKey
               THEN /\ result' = [event EXCEPT !.ret = "none"]
                    /\ UNCHANGED <<rawFiles, disk, clock, pc, call, job>>
               ELSE LET r == rerunStart([rawFiles[f] EXCEPT !.operations[i].masks = masks],
                                        i - 1, disk, now, inverted')
                    IN  /\ result' = [event EXCEPT !.ret = "rerun"]
                        /\ clock' = now
                        /\ rawFiles' = [rawFiles EXCEPT ![f] = r[1]]
                        /\ disk' = r[2]
                        /\ call' = rerunCall([NoCall EXCEPT !.kind = "rerun", !.file = f,
                                                            !.pre = Snapshot,
                                                            !.startIndex = i - 1], r[3])
                        /\ pc' = "load"
                        /\ job' = NoJob
        /\ UNCHANGED unitVars

SelectNext ==
    \/ \E choice \in MaskRunChoices : RunModel(choice)
    \/ \E f \in 1..Len(rawFiles), choice \in MaskRunChoices :
          RunModelOnExisting(f, choice)
    \/ \E f \in 1..Len(rawFiles), i \in 1..MaxCalls, sel \in Selections :
          OnOperationMasksChanged(f, i, sel)
    \/ StartJob
    \/ TilesDone
    \/ FinishRun
    \/ FinishRunOnExisting
    \/ FinishRerunStep

SpecSelect == Init /\ [][SelectNext]_vars

\* =========================================================================
\*  Chains of masked and scaled operations that are re-run  (SpecRerun)
\* =========================================================================
\* What the model dialog can start: Sharpen with each mask selection, and an
\* Upscale that keeps the size.
RerunChoices == MaskRunChoices \cup {<<Upscale, 2, TRUE, {}>>}

RerunNext ==
    \/ \E choice \in RerunChoices : RunModel(choice)
    \/ \E f \in 1..Len(rawFiles), choice \in RerunChoices :
          RunModelOnExisting(f, choice)
    \/ \E f \in 1..Len(rawFiles), i \in 0..MaxCalls : RerunOperationChain(f, i)
    \/ StartJob
    \/ TilesDone
    \/ FinishRun
    \/ FinishRunOnExisting
    \/ FinishRerunStep
    \/ \E f \in 1..Len(rawFiles), i \in 1..MaxCalls, s \in StrengthChoices :
          ApplyStrengthChanges(f, i, s)

SpecRerun == Init /\ [][RerunNext]_vars

\* =========================================================================
\*  Masked operations after operations that change the size  (SpecAlign)
\* =========================================================================
\* GenerateMasks.run: the masks of the base file are made from the image at
\* the base file's path and have its height and width.
maskSize == BaseImage.size

\* What the model dialog can start: Sharpen with each mask selection, and an
\* Upscale that keeps the size or does not.
AlignChoices == MaskRunChoices \cup {<<Upscale, 2, FALSE, {}>>, <<Upscale, 2, TRUE, {}>>}

AlignNext ==
    \/ \E choice \in AlignChoices : RunModel(choice)
    \/ \E f \in 1..Len(rawFiles), choice \in AlignChoices :
          RunModelOnExisting(f, choice)
    \/ \E f \in 1..Len(rawFiles), i \in 0..MaxCalls : RerunOperationChain(f, i)
    \/ StartJob
    \/ TilesDone
    \/ FinishRun
    \/ FinishRunOnExisting
    \/ FinishRerunStep

SpecAlign == Init /\ [][AlignNext]_vars

\* =========================================================================
\*  Cancellation before the tile job exists  (SpecEarly)
\* =========================================================================
\* App.interruptOperation while the active runner has no job yet (its model
\* is loading; process_tiles has not called startJob): requestInterrupt
\* assigns to self.job.interrupt with self.job None and raises AttributeError
\* in the slot of the cancel button. Nothing is set; startJob will make a new
\* Job whose interrupt is False.
InterruptOperationEarly ==
    /\ pc = "load"
    /\ ~job.exists
    /\ result.kind # "interruptOperation"
    /\ result' = [kind |-> "interruptOperation", file |-> call.file, ret |-> "raised",
                  touched |-> FALSE, streak |-> 0, pre |-> Snapshot,
                  startIndex |-> call.startIndex, inferred |-> call.inferred]
    /\ UNCHANGED <<rawFiles, disk, clock, inverted, pc, call, job, nCalls>>
    /\ UNCHANGED unitVars

EarlyNext ==
    \/ \E choice \in RunChoices : RunModel(choice)
    \/ \E f \in 1..Len(rawFiles), choice \in RunChoices :
          RunModelOnExisting(f, choice)
    \/ \E f \in 1..Len(rawFiles), i \in 0..MaxCalls : RerunOperationChain(f, i)
    \/ InterruptOperationEarly
    \/ StartJob
    \/ TilesDone
    \/ RequestInterrupt
    \/ TileCancel
    \/ FinishRun
    \/ FinishRunOnExisting
    \/ FinishRerunStep

SpecEarly == Init /\ [][EarlyNext]_vars

\* =========================================================================
\*  Runs whose cache writes can fail  (SpecFailure)
\* =========================================================================

\* ModelRunner.runOnExisting when a write raises (PIL's save on a full or
\* read-only disk): at saveRawModelOutput (which = "raw", for an operation
\* that supports strength) or at saveImageToCache (which = "rendered").
\* addOperation has been called by then; nothing in runOnExisting,
\* App.runModelOnExisting or the worker catches the exception.
RunOnExistingWriteFails(which) ==
    \E now \in Now(clock) :
        /\ clock' = now
        /\ pc = "post"
        /\ call.kind = "runOnExisting"
        /\ LET file == rawFiles[call.file]
               r == runOnExistingPost(file, call, disk, now, inverted)
               n == Len(r[1].operations)
               modelOp == r[1].operations[n]
           IN  /\ (which = "raw") => supportsStrength(modelOp)
               /\ rawFiles' = [rawFiles EXCEPT ![call.file] =
                                 IF which = "raw"
                                 THEN [r[1] EXCEPT !.path = file.path,
                                                   !.operations[n].rawOutputPath = NoPath]
                                 ELSE [r[1] EXCEPT !.path = file.path]]
               /\ disk' = IF which = "rendered" /\ modelOp.rawOutputPath # NoPath
                          THEN writeFile(disk, modelOp.rawOutputPath, call.output)
                          ELSE disk
        /\ result' = [kind |-> "runOnExisting", file |-> call.file, ret |-> "raised",
                      touched |-> call.touched, streak |-> 0, pre |-> call.pre,
                      startIndex |-> call.startIndex, inferred |-> call.inferred]
        /\ pc' = "idle"
        /\ call' = NoCall
        /\ UNCHANGED <<inverted, job, nCalls>>
        /\ UNCHANGED unitVars

FailureNext ==
    \/ \E choice \in RunChoices : RunModel(choice)
    \/ \E f \in 1..Len(rawFiles), choice \in RunChoices :
          RunModelOnExisting(f, choice)
    \/ StartJob
    \/ TilesDone
    \/ FinishRun
    \/ FinishRunOnExisting
    \/ \E which \in {"raw", "rendered"} : RunOnExistingWriteFails(which)

SpecFailure == Init /\ [][FailureNext]_vars

\* =========================================================================
\*  TileProcessor  (op/simple_tile_processor.py)
\* =========================================================================
\* A tensor is a grid of h rows and w columns (one channel; the channels of an
\* image are treated alike). Sample values are whole numbers: the float v/255
\* of an 8-bit sample v is kept as v * One, and a mask weight in [0, 1] as a
\* number in 0..One, so that weight * sample / One is exact.
One == 4

Tensor(h, w, f(_, _)) ==
    [h |-> h, w |-> w, a |-> [c \in (0..(h - 1)) \X (0..(w - 1)) |-> f(c[1], c[2])]]

\* What a raised exception leaves in place of a tensor.
ErrT == [h |-> -1, w |-> -1, a |-> <<>>]
\* None in place of a tensor (no mask; process_tiles interrupted).
NoneT == [h |-> -2, w |-> -2, a |-> <<>>]

\* t[:, :, y1:y2, x1:x2] with the bounds clipped as Python slices are.
Slice(t, y1, y2, x1, x2) ==
    LET ya == Min2(y1, t.h)
        yb == Max2(Min2(y2, t.h), ya)
        xa == Min2(x1, t.w)
        xb == Max2(Min2(x2, t.w), xa)
    IN  Tensor(yb - ya, xb - xa, LAMBDA y, x : t.a[<<ya + y, xa + x>>])

\* The index a reflection pad reads for position j of a side of n samples.
reflectIndex(j, n) == IF j < 0 THEN -j ELSE IF j >= n THEN 2 * (n - 1) - j ELSE j

\* F.pad(t, (left, right, top, bottom), 'reflect'): torch raises when a pad
\* is not smaller than the side it pads.
padReflect(t, left, right, top, bottom) ==
    IF left >= t.w \/ right >= t.w \/ top >= t.h \/ bottom >= t.h
    THEN ErrT
    ELSE Tensor(t.h + top + bottom, t.w + left + right,
                LAMBDA y, x : t.a[<<reflectIndex(y - top, t.h),
                                    reflectIndex(x - left, t.w)>>])

\* F.pad(t, (left, right, top, bottom), 'constant', 0).
padConstant(t, left, right, top, bottom) ==
    Tensor(t.h + top + bottom, t.w + left + right,
           LAMBDA y, x : IF /\ y - top >= 0 /\ y - top < t.h
                            /\ x - left >= 0 /\ x - left < t.w
                         THEN t.a[<<y - top, x - left>>]
                         ELSE 0)

\* F.interpolate(t, scale_factor, mode="nearest").
interpolateNearest(t, scale) ==
    Tensor(t.h * scale, t.w * scale, LAMBDA y, x : t.a[<<y \div scale, x \div scale>>])

\* F.interpolate(t, scale_factor, mode="bicubic", align_corners=False): the
\* input itself at scale 1; at a larger scale the interpolated samples are
\* stood for by the sample each one is nearest to.
interpolateBicubic(t, scale) ==
    Tensor(t.h * scale, t.w * scale, LAMBDA y, x : t.a[<<y \div scale, x \div scale>>])

\* TileProcessor.img2tensor (8-bit image): sample / 255.
img2tensor(img) == Tensor(img.h, img.w, LAMBDA y, x : img.a[<<y, x>>] * One)

\* TileProcessor.tensor2img (8-bit image): (x * 255).clip(0, 255).astype(uint8).
tensor2img(t) ==
    Tensor(t.h, t.w, LAMBDA y, x : Max2(0, Min2(255, t.a[<<y, x>>] \div One)))

\* The models: what self.model(tile) gives, and model.scale.
TileModels == {"identity", "invert", "double"}
scaleOf(model) == IF model = "double" THEN 2 ELSE 1
infer(model, tile) ==
    LET s == scaleOf(model)
    IN  Tensor(tile.h * s, tile.w * s,
               LAMBDA y, x :
                   LET v == tile.a[<<y \div s, x \div s>>]
                   IN  CASE model = "identity" -> v
                         [] model = "invert"   -> 255 * One - v
                         [] OTHER -> v + (1 + 2 * (y % s) + (x % s)) * One)

\* TileProcessor.preprocess_img: imgXPad, imgYPad and the padded image.
imgPad(n, tileSize) == (tileSize - (n % tileSize)) % tileSize

preprocess_img(p) ==
    LET xp == imgPad(p.img_tensor.w, p.tileSize)
        yp == imgPad(p.img_tensor.h, p.tileSize)
        x1 == xp \div 2
        x2 == xp - x1
        y1 == yp \div 2
        y2 == yp - y1
    IN  [p EXCEPT !.imgXPad = xp,
                  !.imgYPad = yp,
                  !.img_tensor = padReflect(p.img_tensor, x1, x2, y1, y2),
                  !.mask_tensor = IF p.mask # NoneT
                                  THEN padConstant(p.mask, x1, x2, y1, y2)
                                  ELSE NoneT]

\* TileProcessor.postprocess_result
postprocess_result(p, t) ==
    LET x1 == (p.imgXPad \div 2) * p.scale
        x2 == p.imgXPad * p.scale - x1
        y1 == (p.imgYPad \div 2) * p.scale
        y2 == p.imgYPad * p.scale - y1
    IN  Slice(t, y1, t.h - y2, x1, t.w - x2)

\* TileProcessor.preprocess_tile: the tile at row y, column x of the grid,
\* padded to tileSize on each side. ErrT when F.pad(..., 'reflect') raises.
actualTileSize(p) == p.tileSize - (p.tilePad * 2)

preprocess_tile(p, y, x) ==
    LET ats == actualTileSize(p)
        y1 == Max2(y * ats - p.tilePad, 0)
        y2 == (y + 1) * ats + p.tilePad
        x1 == Max2(x * ats - p.tilePad, 0)
        x2 == (x + 1) * ats + p.tilePad
        tile == Slice(p.img_tensor, y1, y2, x1, x2)
        tile_padY1 == IF tile.h < p.tileSize /\ y1 = 0 THEN p.tileSize - tile.h ELSE 0
        tile_padY2 == IF tile.h < p.tileSize /\ y1 # 0
                      THEN IF p.tileSize - tile.h > tile.h
                           THEN tile.h - 1
                           ELSE p.tileSize - tile.h
                      ELSE 0
        tile_padX1 == IF tile.w < p.tileSize /\ x1 = 0 THEN p.tileSize - tile.w ELSE 0
        tile_padX2 == IF tile.w < p.tileSize /\ x1 # 0
                      THEN IF p.tileSize - tile.w > tile.w
                           THEN tile.w - 1
                           ELSE p.tileSize - tile.w
                      ELSE 0
        reflected == padReflect(tile, tile_padX1, tile_padX2, tile_padY1, tile_padY2)
    IN  IF reflected = ErrT
        THEN ErrT
        ELSE IF reflected.h < p.tileSize \/ reflected.w < p.tileSize
        THEN padConstant(reflected, 0, p.tileSize - reflected.w,
                                    0, p.tileSize - reflected.h)
        ELSE reflected

\* tensor.sum()
RECURSIVE sumOver(_, _)
sumOver(t, cells) ==
    IF cells = {}
    THEN 0
    ELSE LET c == CHOOSE c \in cells : TRUE
         IN  t.a[c] + sumOver(t, cells \ {c})
sum(t) == sumOver(t, DOMAIN t.a)

\* TileProcessor._tile_has_mask_pixels
_tile_has_mask_pixels(p, y, x) ==
    IF p.mask_tensor = NoneT
    THEN TRUE
    ELSE LET ats == actualTileSize(p)
         IN  sum(Slice(p.mask_tensor, y * ats, (y + 1) * ats, x * ats, (x + 1) * ats)) > 0

\* out[:, :, py:py+ty, px:px+tx] = src[:, :, sy:sy+ty, sx:sx+tx]
assign(out, py, px, ty, tx, src, sy, sx) ==
    Tensor(out.h, out.w,
           LAMBDA y, x : IF y >= py /\ y < py + ty /\ x >= px /\ x < px + tx
                         THEN src.a[<<sy + (y - py), sx + (x - px)>>]
                         ELSE out.a[<<y, x>>])

\* process_tiles, the branch of a skipped tile: the tile's region of
\* output_tensor receives original_scaled.
skipTile(p, y, x) ==
    LET sts == actualTileSize(p) * p.scale
        px == x * sts
        py == y * sts
        trimmed_x == Min2(sts, p.output_tensor.w - px)
        trimmed_y == Min2(sts, p.output_tensor.h - py)
    IN  assign(p.output_tensor, py, px, trimmed_y, trimmed_x, p.original_scaled, py, px)

\* process_tiles, the branch of a processed tile: inference on the padded
\* tile, the padding cut off, the rest trimmed to the canvas and written.
inferTile(p, y, x) ==
    LET sts == actualTileSize(p) * p.scale
        sp == p.tilePad * p.scale
        tile == preprocess_tile(p, y, x)
        processed_tile == Slice(infer(p.model, tile), sp, sp + sts, sp, sp + sts)
        px == x * sts
        py == y * sts
        trimmed_x == IF px + sts > p.output_tensor.w THEN p.output_tensor.w - px ELSE sts
        trimmed_y == IF py + sts > p.output_tensor.h THEN p.output_tensor.h - py ELSE sts
    IN  IF tile = ErrT
        THEN ErrT
        ELSE assign(p.output_tensor, py, px, trimmed_y, trimmed_x, processed_tile, 0, 0)

\* process_tiles, after the loop: mask_scaled * output + (1 - mask_scaled) * original.
blend(p, output_tensor) ==
    IF p.mask_tensor = NoneT
    THEN output_tensor
    ELSE Tensor(output_tensor.h, output_tensor.w,
                LAMBDA y, x :
                    (p.mask_scaled.a[<<y, x>>] * output_tensor.a[<<y, x>>]
                       + (One - p.mask_scaled.a[<<y, x>>]) * p.original_scaled.a[<<y, x>>])
                    \div One)

\* TileProcessor(model, tileSize, tilePad, scale, observer, mask) with the
\* image process_image is called on. out: what process_image returned (a
\* history field, as are img and inferred, the tiles inference ran on).
TileProcessor(model, tileSize, tilePad, mask, img) ==
    [stage |-> "new", model |-> model, tileSize |-> tileSize, tilePad |-> tilePad,
     scale |-> scaleOf(model), mask |-> mask, img |-> img,
     img_tensor |-> NoneT, mask_tensor |-> NoneT, imgXPad |-> 0, imgYPad |-> 0,
     output_tensor |-> NoneT, original_scaled |-> NoneT, mask_scaled |-> NoneT,
     xtiles |-> 0, ytiles |-> 0, k |-> 0, inferred |-> {}, out |-> NoneT]

ceilDiv_Floor(n, d) == n \div d
ceilDiv(n, d) == (n + d - 1) \div d

\* process_image up to the first pass of the tile loop: img2tensor,
\* preprocess_img, and process_tiles' startJob, canvas and scaled copies.
ProcessImage ==
    /\ tp.stage = "new"
    /\ LET p == preprocess_img([tp EXCEPT !.img_tensor = img2tensor(tp.img)])
           ats == actualTileSize(p)
       IN  IF p.img_tensor = ErrT
           THEN /\ tp' = [p EXCEPT !.stage = "done", !.out = ErrT]
                /\ UNCHANGED job
           ELSE /\ tp' = [p EXCEPT
                      !.stage = "tiles",
                      !.xtiles = ceilDiv(p.img_tensor.w, ats),
                      !.ytiles = ceilDiv(p.img_tensor.h, ats),
                      !.output_tensor = Tensor(p.img_tensor.h * p.scale,
                                               p.img_tensor.w * p.scale,
                                               LAMBDA y, x : 0),
                      !.original_scaled = IF p.mask_tensor # NoneT
                                          THEN interpolateBicubic(p.img_tensor, p.scale)
                                          ELSE NoneT,
                      !.mask_scaled = IF p.mask_tensor # NoneT
                                      THEN interpolateNearest(p.mask_tensor, p.scale)
                                      ELSE NoneT]
                /\ job' = Job(ceilDiv(p.img_tensor.w, ats) * ceilDiv(p.img_tensor.h, ats))
    /\ UNCHANGED <<rawFiles, disk, clock, inverted, pc, call, result, nCalls>>
    /\ UNCHANGED <<fn, args, ret>>

tileY(p) == p.k \div p.xtiles
tileX(p) == p.k % p.xtiles

\* A pass of the loop that finds shouldInterrupt(): process_tiles returns None.
TileInterrupted ==
    /\ tp.stage = "tiles"
    /\ tp.k < tp.xtiles * tp.ytiles
    /\ job.interrupt
    /\ tp' = [tp EXCEPT !.stage = "done", !.out = NoneT]
    /\ UNCHANGED chainVars
    /\ UNCHANGED <<fn, args, ret>>

\* A pass of the loop over a tile with no mask weight.
TileSkipped ==
    /\ tp.stage = "tiles"
    /\ tp.k < tp.xtiles * tp.ytiles
    /\ ~job.interrupt
    /\ ~_tile_has_mask_pixels(tp, tileY(tp), tileX(tp))
    /\ tp' = [tp EXCEPT !.output_tensor = skipTile(tp, tileY(tp), tileX(tp)),
                        !.k = @ + 1]
    /\ job' = updateJob(job, 1)
    /\ UNCHANGED <<rawFiles, disk, clock, inverted, pc, call, result, nCalls>>
    /\ UNCHANGED <<fn, args, ret>>

\* A pass of the loop over a tile that is processed.
TileInferred ==
    /\ tp.stage = "tiles"
    /\ tp.k < tp.xtiles * tp.ytiles
    /\ ~job.interrupt
    /\ _tile_has_mask_pixels(tp, tileY(tp), tileX(tp))
    /\ LET written == inferTile(tp, tileY(tp), tileX(tp))
       IN  IF written = ErrT
           THEN /\ tp' = [tp EXCEPT !.stage = "done", !.out = ErrT]
                /\ UNCHANGED job
           ELSE /\ tp' = [tp EXCEPT !.output_tensor = written,
                                    !.k = @ + 1,
                                    !.inferred = @ \cup {<<tileY(tp), tileX(tp)>>}]
                /\ job' = updateJob(job, 1)
    /\ UNCHANGED <<rawFiles, disk, clock, inverted, pc, call, result, nCalls>>
    /\ UNCHANGED <<fn, args, ret>>

\* The loop has ended: the blend, postprocess_result, tensor2img.
TilesReturn ==
    /\ tp.stage = "tiles"
    /\ tp.k = tp.xtiles * tp.ytiles
    /\ tp' = [tp EXCEPT !.stage = "done",
                        !.out = tensor2img(postprocess_result(tp, blend(tp, tp.output_tensor)))]
    /\ UNCHANGED chainVars
    /\ UNCHANGED <<fn, args, ret>>

\* Observable.requestInterrupt from the UI thread while process_tiles runs.
InterruptTiles ==
    /\ tp.stage = "tiles"
    /\ job.exists
    /\ ~job.interrupt
    /\ job' = [job EXCEPT !.interrupt = TRUE]
    /\ UNCHANGED <<rawFiles, disk, clock, inverted, pc, call, result, nCalls>>
    /\ UNCHANGED unitVars

\* ------------------------------------------------ process_image by itself
MaxDim == 6              \* height and width of the image
MaxTiles == 16           \* tiles of the grid
TileSizes == {2, 3, 4, 6}
TileConfigs == {c \in TileSizes \X (0..2) : 2 * c[2] < c[1]}

\* The image of h rows and w columns, each sample a number of its own.
TestImage(h, w) == Tensor(h, w, LAMBDA y, x : y * w + x + 1)

\* The mask fields: none, nothing selected, the top left quarter selected,
\* the right half at half weight.
MaskFields(h, w) ==
    {NoneT,
     Tensor(h, w, LAMBDA y, x : 0),
     Tensor(h, w, LAMBDA y, x : IF 2 * y < h /\ 2 * x < w THEN One ELSE 0),
     Tensor(h, w, LAMBDA y, x : IF 2 * x >= w THEN One \div 2 ELSE 0)}

paddedSide(n, tileSize) == n + imgPad(n, tileSize)

TilesInit ==
    /\ ChainInit
    /\ fn = "none"
    /\ args = <<>>
    /\ ret = NotCalled
    /\ \E h \in 1..MaxDim, w \in 1..MaxDim, c \in TileConfigs, model \in TileModels :
          /\ ceilDiv(paddedSide(h, c[1]), c[1] - 2 * c[2])
               * ceilDiv(paddedSide(w, c[1]), c[1] - 2 * c[2]) <= MaxTiles
          /\ \E mask \in MaskFields(h, w) :
                tp = TileProcessor(model, c[1], c[2], mask, TestImage(h, w))

TilesNext ==
    \/ ProcessImage
    \/ TileInterrupted
    \/ TileSkipped
    \/ TileInferred
    \/ TilesReturn
    \/ InterruptTiles
SpecTiles == TilesInit /\ [][TilesNext]_vars

\* =========================================================================
\*  combine_masks  (op/model_runner.py)
\* =========================================================================
\* A Mask: its array (a tensor of whole numbers, as the detector stored it)
\* and its inverted flag.
Mask(mask, inv) == [mask |-> mask, inverted |-> inv]

maxOf(t) == CHOOSE v \in {t.a[c] : c \in DOMAIN t.a} :
                \A c \in DOMAIN t.a : t.a[c] <= v

\* mask.mask.astype(float32), divided by its maximum when that exceeds 1.0.
normalized(t) ==
    IF maxOf(t) > 1
    THEN Tensor(t.h, t.w, LAMBDA y, x : (t.a[<<y, x>>] * One) \div maxOf(t))
    ELSE Tensor(t.h, t.w, LAMBDA y, x : t.a[<<y, x>>] * One)

RECURSIVE combineInside(_, _, _)
combineInside(masks, i, combined) ==
    IF i > Len(masks)
    THEN combined
    ELSE combineInside(masks, i + 1,
             LET m == normalized(masks[i].mask)
             IN  Tensor(combined.h, combined.w,
                        LAMBDA y, x : Max2(combined.a[<<y, x>>], m.a[<<y, x>>])))

RECURSIVE combineOutside(_, _, _)
combineOutside(masks, i, combined) ==
    IF i > Len(masks)
    THEN combined
    ELSE combineOutside(masks, i + 1,
             LET m == normalized(masks[i].mask)
             IN  Tensor(combined.h, combined.w,
                        LAMBDA y, x : Min2(combined.a[<<y, x>>], One - m.a[<<y, x>>])))

isInside(m) == ~m.inverted
isOutside(m) == m.inverted

combine_masks_IgnoresInverted(masks) ==
    IF masks = <<>>
    THEN NoneT
    ELSE combineInside(masks, 1,
                       Tensor(masks[1].mask.h, masks[1].mask.w, LAMBDA y, x : 0))

combine_masks(masks) ==
    IF masks = <<>>
    THEN NoneT
    ELSE LET inside_masks == SelectSeq(masks, isInside)
             outside_masks == SelectSeq(masks, isOutside)
             h == masks[1].mask.h
             w == masks[1].mask.w
             combined == IF inside_masks # <<>>
                         THEN combineInside(inside_masks, 1, Tensor(h, w, LAMBDA y, x : 0))
                         ELSE Tensor(h, w, LAMBDA y, x : One)
         IN  combineOutside(outside_masks, 1, combined)

\* ModelRunner.run / runOnExisting: combine_masks(masks) if masks else None
combinedMask(masks) == IF masks # <<>> THEN combine_masks(masks) ELSE NoneT

\* ------------------------------------------------ combine_masks by itself
MaxMasks == 2            \* masks in a list
MaskW == 2               \* samples of a mask array (one row)
MaskSamples == {0, 1, 2}
MaskArrays ==
    {Tensor(1, MaskW, LAMBDA y, x : f[x]) : f \in [0..(MaskW - 1) -> MaskSamples]}
MaskObjects == {Mask(t, inv) : t \in MaskArrays, inv \in BOOLEAN}
MaskLists == UNION {[1..n -> MaskObjects] : n \in 0..MaxMasks}

MasksInit ==
    /\ ChainInit
    /\ tp = NoProcessor
    /\ fn = "combine_masks"
    /\ args \in MaskLists
    /\ ret = NotCalled

CombineMasks ==
    /\ fn = "combine_masks"
    /\ ~ret.called
    /\ ret' = Returned(combinedMask(args))
    /\ UNCHANGED <<chainVars, tp, fn, args>>

MasksNext == CombineMasks
SpecMasks == MasksInit /\ [][MasksNext]_vars

\* =========================================================================
\*  AppliedOperation by itself
\* =========================================================================
MaxEdits == 2            \* later assignments to an operation's fields
OperationTypes == Operation \cup {"none"}
ScaleValues == {Null, 25, 50, 100, 200}
StrengthValues == {Null, 0, 30, 50, 80, 100}

OpsInit ==
    /\ ChainInit
    /\ tp = NoProcessor
    /\ fn = "AppliedOperation"
    /\ args \in [operation_type : OperationTypes, strength : StrengthValues,
                 scale : ScaleValues, masks : SUBSET MaskLabels]
    /\ ret = NotCalled

\* AppliedOperation(operation_type, model, modelPath, strength, scale, masks)
CreateOperation ==
    /\ fn = "AppliedOperation"
    /\ ~ret.called
    /\ ret' = Returned(AppliedOperation(args.operation_type, 1, args.strength,
                                        args.scale, args.masks))
    /\ UNCHANGED <<chainVars, tp, fn, args>>

\* operation.strength = newStrength (the strength slider)
SetStrength(s) ==
    /\ fn = "AppliedOperation"
    /\ ret.called
    /\ ret.edits < MaxEdits
    /\ ret' = [ret EXCEPT !.value.strength = s, !.edits = @ + 1]
    /\ UNCHANGED <<chainVars, tp, fn, args>>

\* operation.rawOutputPath = rawPath (saveRawModelOutput)
SetRawOutputPath ==
    /\ fn = "AppliedOperation"
    /\ ret.called
    /\ ret.edits < MaxEdits
    /\ ret' = [ret EXCEPT !.value.rawOutputPath = rawPathOf(ret.value, 0),
                          !.edits = @ + 1]
    /\ UNCHANGED <<chainVars, tp, fn, args>>

\* operation.masks = the masks selected (the mask selector of the operation)
SetMasks(masks) ==
    /\ fn = "AppliedOperation"
    /\ ret.called
    /\ ret.edits < MaxEdits
    /\ ret' = [ret EXCEPT !.value.masks = masks, !.edits = @ + 1]
    /\ UNCHANGED <<chainVars, tp, fn, args>>

OpsNext ==
    \/ CreateOperation
    \/ \E s \in StrengthValues \ {Null} : SetStrength(s)
    \/ SetRawOutputPath
    \/ \E masks \in SUBSET MaskLabels : SetMasks(masks)
SpecOps == OpsInit /\ [][OpsNext]_vars

\* =========================================================================
\*  InputFile.addMask by itself  (SpecLabels)
\* =========================================================================
MaxAdded == 4            \* masks added to one InputFile

\* A label is kept as the parts an "_" joins: "person" is <<"person">>, and
\* f"{label}_{n}" is the label with n appended, so that "person_2" is
\* <<"person", 2>> whether a detector gave it or addMask made it.
withSuffix(label, n) == Append(label, n)
DetectedLabels == {<<"person">>, <<"dog">>, <<"person", 2>>}

\* InputFile.addMask: the masks of the file after mask is added. (The branch
\* that renames the first mask to label_1 is under count = 0, where no mask
\* has the label.)
addMask(masks, label) ==
    LET count == Cardinality({k \in 1..Len(masks) : masks[k].label = label})
        existing == SelectSeq(masks, LAMBDA m : m.label = label)
    IN  IF count > 0
        THEN Append(masks, [label |-> label, uniqueLabel |-> withSuffix(label, count + 1)])
        ELSE IF existing # <<>>
        THEN LET first == CHOOSE k \in 1..Len(masks) :
                              /\ masks[k].label = label
                              /\ \A j \in 1..(k - 1) : masks[j].label # label
             IN  Append([masks EXCEPT ![first].uniqueLabel = withSuffix(label, 1)],
                        [label |-> label, uniqueLabel |-> withSuffix(label, 2)])
        ELSE Append(masks, [label |-> label, uniqueLabel |-> label])

LabelsInit ==
    /\ ChainInit
    /\ tp = NoProcessor
    /\ fn = "addMask"
    /\ args = <<>>
    /\ ret = Returned(<<>>)

\* inputFile.addMask(Mask(score, label, mask, box))
AddMask(label) ==
    /\ fn = "addMask"
    /\ Len(ret.value) < MaxAdded
    /\ ret' = [ret EXCEPT !.value = addMask(ret.value, label)]
    /\ UNCHANGED <<chainVars, tp, fn, args>>

LabelsNext == \E label \in DetectedLabels : AddMask(label)
SpecLabels == LabelsInit /\ [][LabelsNext]_vars

\* =========================================================================
\*  applyStrengthBlending by itself
\* =========================================================================
PixelValues == {0, 100, 255}
\* Images of size 1 with any samples, images of size 2 of one colour.
Flat(a, size) == Pixels([i \in 1..(size * SamplesPerSize) |-> a])
BlendOutputs ==
    {Pixels(f) : f \in [1..SamplesPerSize -> PixelValues]}
        \cup {Flat(a, 2) : a \in PixelValues}
BlendInputs ==
    {Pixels(f) : f \in [1..SamplesPerSize -> PixelValues]} \cup {NoImage}
BlendOperations ==
    {[AppliedOperation(t, 1, Null, sc, {}) EXCEPT !.strength = st] :
        t \in Operation, sc \in {Null, 50}, st \in StrengthValues}

BlendInit ==
    /\ ChainInit
    /\ tp = NoProcessor
    /\ fn = "applyStrengthBlending"
    /\ args \in [img : BlendOutputs, operation : BlendOperations, inputImg : BlendInputs]
    /\ (args.inputImg # NoImage /\ args.inputImg.size # args.img.size)
          => \E a \in PixelValues : args.inputImg = Flat(a, 1)
    /\ ret = NotCalled

Blend ==
    /\ fn = "applyStrengthBlending"
    /\ ~ret.called
    /\ ret' = Returned(applyStrengthBlending(args.img, args.operation, args.inputImg))
    /\ UNCHANGED <<chainVars, tp, fn, args>>

BlendNext == Blend
SpecBlend == BlendInit /\ [][BlendNext]_vars

\* =========================================================================
\*  Replay from a chain that exists  (SpecReplay)
\* =========================================================================
MaxChain == 3      \* operations of the chain a replay starts from

\* The choices of the runs a chain was made by: every sequence of 1..n choices.
RECURSIVE ChoiceSeqs(_)
ChoiceSeqs(n) ==
    IF n = 0
    THEN {<<>>}
    ELSE LET shorter == ChoiceSeqs(n - 1)
         IN  shorter \cup {Append(cs, c) : cs \in {x \in shorter : Len(x) = n - 1},
                                           c \in RunChoices}

\* The call record of a runner started for a choice of the model dialog.
callOf(kind, f, choice) ==
    [NoCall EXCEPT !.kind = kind, !.file = f,
                   !.operation_type = choice[1],
                   !.modelPath = choice[2],
                   !.maintainScale = choice[3],
                   !.masks = labelsOf(choice[4])]

\* The file and the disk after App.runModel for cs[1] and then
\* App.runModelOnExisting for cs[2], cs[3], ... have each returned, run k in
\* second k - Len(cs) (the seconds before second 0). Gives <<file, disk>>.
RECURSIVE chainBuilt(_, _, _)
chainBuilt(cs, k, inv) ==
    IF k = 0
    THEN <<OutputFile(NoPath), [q \in {BasePath} |-> BaseImage]>>
    ELSE LET before == chainBuilt(cs, k - 1, inv)
             c0 == callOf(IF k = 1 THEN "run" ELSE "runOnExisting", 1, cs[k])
             img == imread(before[2], IF k = 1 THEN BasePath ELSE before[1].path)
             c == [c0 EXCEPT !.img = img,
                             !.output = processed(c0.modelPath, img,
                                                  maskKey(c0.masks, inv))]
         IN  IF k = 1
             THEN runPost(c, before[2], k - Len(cs), inv)
             ELSE runOnExistingPost(before[1], c, before[2], k - Len(cs), inv)

\* An OutputFile made by completed runs, at most n of them, and nothing
\* running.
builtBy(n) ==
    \E cs \in ChoiceSeqs(n) \ {<<>>} :
        LET built == chainBuilt(cs, Len(cs), [l \in MaskLabels |-> FALSE])
        IN  /\ rawFiles = <<built[1]>>
            /\ disk = built[2]
            /\ clock = 0
            /\ inverted = [l \in MaskLabels |-> FALSE]
            /\ pc = "idle"
            /\ call = NoCall
            /\ job = updateJob(Job(NumTiles), NumTiles)
            /\ result = NoResult
            /\ nCalls = 0
            /\ NoUnit

ReplayInit == builtBy(MaxChain)

ReplayNext ==
    \/ \E i \in 1..(MaxChain + 1), s \in StrengthChoices : ApplyStrengthChanges(1, i, s)
    \/ ReapplyStrength(1)

SpecReplay == ReplayInit /\ [][ReplayNext]_vars

\* =========================================================================
\*  A model dialog accepted with several models selected  (SpecBatch)
\* =========================================================================
\* args is what showModelDialog queued: the selected models, one worker each,
\* the operation and maintainScale, and the OutputFile that was selected when
\* the dialog was accepted (0: none). ret.value is SelectionManager.compare,
\* the files by their place in App.rawFiles.

\* SelectionManager.getCompareFile(0); 0 for None.
getCompareFile(compare) == IF 0 >= Len(compare) THEN 0 ELSE compare[1]

\* SelectionManager.selectCompare
selectCompare(compare, file) ==
    LET others == SelectSeq(compare, LAMBDA f : f # file)
        inserted == <<file>> \o others
    IN  IF Len(inserted) > 4 THEN SubSeq(inserted, 1, Len(inserted) - 1) ELSE inserted

\* Every sequence of 1..n models.
RECURSIVE ModelSeqs(_)
ModelSeqs(n) ==
    IF n = 0
    THEN {}
    ELSE ModelSeqs(n - 1)
           \cup {<<m>> : m \in Models}
           \cup {Append(ms, m) : ms \in {x \in ModelSeqs(n - 1) : Len(x) = n - 1},
                                 m \in Models}

\* The session when the dialog is accepted: no OutputFile yet, or one made by
\* an earlier run, selected for comparison or not.
BatchInit ==
    /\ clock = 0
    /\ inverted = [l \in MaskLabels |-> FALSE]
    /\ pc = "idle"
    /\ call = NoCall
    /\ job = NoJob
    /\ result = NoResult
    /\ nCalls = 0
    /\ tp = NoProcessor
    /\ fn = "showModelDialog"
    /\ \/ /\ rawFiles = <<>>
          /\ disk = [q \in {BasePath} |-> BaseImage]
          /\ ret = Returned(<<>>)
       \/ \E c \in RunChoices, compare \in {<<>>, <<1>>} :
             LET built == chainBuilt(<<c>>, 1, [l \in MaskLabels |-> FALSE])
             IN  /\ rawFiles = <<built[1]>>
                 /\ disk = built[2]
                 /\ ret = Returned(compare)
    /\ \E models \in ModelSeqs(MaxCalls), maintainScale \in BOOLEAN :
          args = [models |-> models, operation |-> Sharpen,
                  maintainScale |-> maintainScale,
                  selected |-> getCompareFile(ret.value)]

\* The worker of the next selected model starts: f(selectedModel) reads the
\* selection and calls App.runModelOnExisting or App.runModel.
BatchWorker ==
    /\ fn = "showModelDialog"
    /\ nCalls < Len(args.models)
    /\ LET compareFile == getCompareFile(ret.value)
           choice == <<args.operation, args.models[nCalls + 1], args.maintainScale, {}>>
       IN  IF compareFile # 0
           THEN RunModelOnExisting(compareFile, choice)
           ELSE RunModel(choice)

\* The UI thread receives selectCompareFile(result), emitted by the worker
\* that has returned: SelectionManager.selectCompare.
SelectCompareFile ==
    /\ fn = "showModelDialog"
    /\ result.kind \in {"run", "runOnExisting"}
    /\ result.ret = "file"
    /\ getCompareFile(ret.value) # result.file
    /\ ret' = [ret EXCEPT !.value = selectCompare(@, result.file)]
    /\ UNCHANGED <<chainVars, tp, fn, args>>

BatchNext ==
    \/ BatchWorker
    \/ SelectCompareFile
    \/ StartJob
    \/ TilesDone
    \/ FinishRun
    \/ FinishRunOnExisting

SpecBatch == BatchInit /\ [][BatchNext]_vars

\* =========================================================================
\*  The strength sliders of the operation widgets  (SpecWidgets)
\* =========================================================================
MaxWidgets == 2          \* operations of the file shown, each with a slider

\* Strengths are percents, the positions of a slider. The positions v for
\* which the float (v / 100.0) * 100 is below v, so that int() gives v - 1.
TruncatedPercents == {29, 57, 58}
\* The slider positions that are tried.
SliderChoices == {0, 29, 80, 100}

\* OperationWidget.setupUi: strengthSlider.setValue(int((strength or 1.0) * 100))
sliderValueOf(strength) ==
    IF strength = Null \/ strength = 0
    THEN 100
    ELSE IF strength \in TruncatedPercents THEN strength - 1 ELSE strength

\* ret.value is the panel: strength, the strengths of the operations of the
\* current compare file; slider, the positions of their widgets' sliders;
\* timer, whether strengthDebounceTimer is running; moved, the sliders the
\* user has moved since the update last ran; before and movedBefore, the
\* strengths and the moved sliders when the update last started.
WidgetsInit ==
    /\ ChainInit
    /\ tp = NoProcessor
    /\ fn = "operationWidgets"
    /\ args = <<>>
    /\ \E n \in 1..MaxWidgets :
          LET strength == [i \in 1..n |-> InitStrength(Sharpen, Null, Null)]
          IN  ret = Returned([strength |-> strength,
                              slider |-> [i \in 1..n |-> sliderValueOf(strength[i])],
                              timer |-> FALSE,
                              moved |-> {},
                              before |-> strength,
                              movedBefore |-> {}])

\* Ui_AppWindow._createOperationWidgets (from renderPostProcess): the widgets
\* are made again from the operations.
CreateOperationWidgets ==
    /\ fn = "operationWidgets"
    /\ ret' = [ret EXCEPT !.value.slider =
                   [i \in DOMAIN ret.value.strength |-> sliderValueOf(ret.value.strength[i])]]
    /\ UNCHANGED <<chainVars, tp, fn, args>>

\* The user moves the slider of operation i: OperationWidget._onStrengthChanged,
\* Ui_AppWindow._onOperationStrengthChanged restarts the debounce timer.
OnStrengthChanged(i, value) ==
    /\ fn = "operationWidgets"
    /\ i \in DOMAIN ret.value.slider
    /\ value # ret.value.slider[i]
    /\ ret' = [ret EXCEPT !.value.slider[i] = value,
                          !.value.timer = TRUE,
                          !.value.moved = @ \cup {i}]
    /\ UNCHANGED <<chainVars, tp, fn, args>>

\* Ui_AppWindow._applyStrengthChanges when the timer fires: every widget
\* whose getStrength() differs from its operation's strength sets it.
WidgetsApplyStrengthChanges ==
    /\ fn = "operationWidgets"
    /\ ret.value.timer
    /\ ret' = [ret EXCEPT !.value.strength =
                              [i \in DOMAIN @ |-> IF @[i] # ret.value.slider[i]
                                                  THEN ret.value.slider[i]
                                                  ELSE @[i]],
                          !.value.timer = FALSE,
                          !.value.moved = {},
                          !.value.before = ret.value.strength,
                          !.value.movedBefore = ret.value.moved]
    /\ UNCHANGED <<chainVars, tp, fn, args>>

WidgetsNext ==
    \/ CreateOperationWidgets
    \/ \E i \in 1..MaxWidgets, value \in SliderChoices : OnStrengthChanged(i, value)
    \/ WidgetsApplyStrengthChanges

SpecWidgets == WidgetsInit /\ [][WidgetsNext]_vars

\* =========================================================================
\*  The tile settings of the model dialog  (SpecDialog)
\* =========================================================================
MaxSideTiles == 2        \* a side of the padded image, in tiles of tileSize

\* Ui_DialogModel.drawModelList: the items of the two comboboxes.
tileSizes == {64, 128, 256, 512, 1024}
tilePadding == {0, 8, 16, 32}

\* args is a TileProcessor as the dialog's choice makes it, after
\* preprocess_img: each side of the image is a multiple of tileSize.
DialogInit ==
    /\ ChainInit
    /\ tp = NoProcessor
    /\ fn = "process_tiles"
    /\ ret = NotCalled
    /\ \E size \in tileSizes, padding \in tilePadding, ny \in 1..MaxSideTiles,
          nx \in 1..MaxSideTiles :
          args = [tileSize |-> size, tilePad |-> padding, h |-> ny * size, w |-> nx * size]

\* process_tiles up to startJob: the tile grid, or the ZeroDivisionError of
\* math.ceil(w / actual_tile_size).
tileGrid(p) ==
    IF actualTileSize(p) = 0
    THEN [raised |-> "ZeroDivisionError", xtiles |-> 0, ytiles |-> 0]
    ELSE [raised |-> "none",
          xtiles |-> ceilDiv(p.w, actualTileSize(p)),
          ytiles |-> ceilDiv(p.h, actualTileSize(p))]

ProcessTiles ==
    /\ fn = "process_tiles"
    /\ ~ret.called
    /\ ret' = Returned(tileGrid(args))
    /\ UNCHANGED <<chainVars, tp, fn, args>>

DialogNext == ProcessTiles
SpecDialog == DialogInit /\ [][DialogNext]_vars

\* =========================================================================
\*  Replay in a session whose window was asked to close  (SpecSweep)
\* =========================================================================
MaxSwept == 2      \* operations of the chain the session has when it starts

SweepInit == builtBy(MaxSwept)

SweepNext ==
    \/ closeEvent
    \/ ReapplyStrength(1)

SpecSweep == SweepInit /\ [][SweepNext]_vars

\* =========================================================================
\*  Claims on the operation chain
\* =========================================================================

\* The image the chain stands for: every operation, in order, contributes its
\* model output, blended at its strength where strength applies, then scaled.
RECURSIVE cumulative(_, _, _)
cumulative(ops, i, currentImg) ==
    IF i > Len(ops)
    THEN currentImg
    ELSE cumulative(ops, i + 1,
             applyScale(applyStrengthBlending(ops[i].modelOutput, ops[i], currentImg),
                        ops[i]))

\* C1 (cancellation non-commit): when App.runModel or App.runModelOnExisting
\* has returned None because the tile loop saw the interrupt, and no UI call
\* ran meanwhile, the file list, the operations and the path of every
\* OutputFile and every file on disk are what they were before the call: no
\* raw output and no image was written, no operation was appended, no file was
\* added to the list.
C1_CancellationNonCommit ==
    (result.kind \in {"run", "runOnExisting"} /\ result.ret = "none" /\ ~result.touched)
        => (rawFiles = result.pre.rawFiles /\ disk = result.pre.disk)

\* C1 happens: a runOnExisting on a file with an operation was cancelled.
C1_Witness ==
    /\ result.kind = "runOnExisting"
    /\ result.ret = "none"
    /\ ~result.touched
    /\ Len(rawFiles[result.file].operations) >= 1
    /\ job.interrupt

\* C2 (replay atomicity), as claimed: when App.rerunOperationChain has
\* returned False, the file's operations and path are what they were before
\* the call.
C2_ReplayAtomicity ==
    (result.kind = "rerun" /\ result.ret = "false" /\ ~result.touched)
        => /\ rawFiles[result.file].operations
                = result.pre.rawFiles[result.file].operations
           /\ rawFiles[result.file].path = result.pre.rawFiles[result.file].path

\* C3 (chain/path invariant), as claimed: right after a run, runOnExisting,
\* reapplyStrength or rerunOperationChain that succeeded, the image at the
\* file's path is the cumulative result of its operations on the base image.
C3_ChainPathInvariant ==
    (result.ret \in {"file", "true"} /\ ~result.touched)
        => imread(disk, rawFiles[result.file].path)
              = cumulative(rawFiles[result.file].operations, 1, BaseImage)

\* C9 (replay idempotence): a reapplyStrength that followed a reapplyStrength
\* of the same file, with nothing changed in between, left the file's image
\* content and its operations as they were.
C9_ReplayIdempotence ==
    (result.kind = "reapplyStrength" /\ result.streak >= 2 /\ ~result.touched)
        => /\ imread(disk, rawFiles[result.file].path)
                = imread(result.pre.disk, result.pre.rawFiles[result.file].path)
           /\ rawFiles[result.file].operations
                = result.pre.rawFiles[result.file].operations

\* C9 happens: reapplyStrength has run twice in a row on a chain of three
\* operations, one of them blended at a strength below 1 and one scaled.
C9_Witness ==
    /\ result.kind = "reapplyStrength"
    /\ result.ret = "true"
    /\ result.streak >= 2
    /\ ~result.touched
    /\ Len(rawFiles[1].operations) = 3
    /\ \E i \in 1..3 : rawFiles[1].operations[i].scale # Null
    /\ \E i \in 1..3 : rawFiles[1].operations[i].strength = DEFAULT_STRENGTH

\* ------------------------------------------------------------------- C4
\* C4: when the image's height and width are exact multiples of tileSize,
\* the model is the identity of scale 1 and there is no mask, a call of
\* process_image that was not interrupted returns the input image.
C4_TilingReconstructionIdentity ==
    (/\ tp.stage = "done"
     /\ tp.out # NoneT
     /\ tp.model = "identity"
     /\ tp.mask = NoneT
     /\ tp.img.h % tp.tileSize = 0
     /\ tp.img.w % tp.tileSize = 0)
        => tp.out = tp.img

\* ------------------------------------------------------------------- C5
\* C5: once preprocess_img has run, imgXPad = (t - w mod t) mod t and
\* imgYPad = (t - h mod t) mod t and the padded image has h + imgYPad rows and
\* w + imgXPad columns, both multiples of t; and a call of process_image that
\* was not interrupted returns an image of h * scale rows and w * scale
\* columns.
C5_PaddingCorrectness ==
    /\ (tp.stage \in {"tiles", "done"}) =>
          /\ tp.imgXPad = (tp.tileSize - (tp.img.w % tp.tileSize)) % tp.tileSize
          /\ tp.imgYPad = (tp.tileSize - (tp.img.h % tp.tileSize)) % tp.tileSize
          /\ tp.img_tensor.h = tp.img.h + tp.imgYPad
          /\ tp.img_tensor.w = tp.img.w + tp.imgXPad
          /\ tp.img_tensor.h % tp.tileSize = 0
          /\ tp.img_tensor.w % tp.tileSize = 0
    /\ (tp.stage = "done" /\ tp.out # NoneT) =>
          /\ tp.out.h = tp.img.h * tp.scale
          /\ tp.out.w = tp.img.w * tp.scale

\* ------------------------------------------------------------------- C6
\* process_tiles with inference on every tile from tile k on.
RECURSIVE inferFrom(_, _)
inferFrom(p, k) ==
    IF k >= p.xtiles * p.ytiles
    THEN p.output_tensor
    ELSE LET written == inferTile(p, k \div p.xtiles, k % p.xtiles)
         IN  IF written = ErrT
             THEN ErrT
             ELSE inferFrom([p EXCEPT !.output_tensor = written], k + 1)

\* process_image with inference on every tile, then the blend over the canvas.
bruteForce(p) ==
    IF p.img_tensor = ErrT
    THEN ErrT
    ELSE LET output_tensor ==
                 inferFrom([p EXCEPT !.output_tensor =
                                Tensor(p.img_tensor.h * p.scale, p.img_tensor.w * p.scale,
                                       LAMBDA y, x : 0)], 0)
         IN  IF output_tensor = ErrT
             THEN ErrT
             ELSE tensor2img(postprocess_result(p, blend(p, output_tensor)))

\* C6: what a call of process_image that was not interrupted gives, tiles
\* without mask weight skipped, is what inference on every tile followed by
\* the blend over the whole canvas gives.
C6_MaskSkipEquivalence ==
    (tp.stage = "done" /\ tp.out # NoneT) => tp.out = bruteForce(tp)

\* ------------------------------------------------------------------- C7
\* The weights of the masks of a list at one position, after normalisation.
insideWeights(masks, c) ==
    {normalized(masks[k].mask).a[c] : k \in {j \in 1..Len(masks) : ~masks[j].inverted}}
outsideWeights(masks, c) ==
    {normalized(masks[k].mask).a[c] : k \in {j \in 1..Len(masks) : masks[j].inverted}}
greatest(S) == CHOOSE v \in S : \A u \in S : u <= v
least(S) == CHOOSE v \in S : \A u \in S : v <= u

\* C7: combine_masks of an empty list is None. Otherwise the weight at every
\* position is the least of: the greatest weight of the inside masks there
\* (1 everywhere when there is no inside mask), and 1 - the weight of each
\* outside mask there. So with inside masks only it is their elementwise
\* maximum, and where an outside mask has weight 1 the result is 0.
C7_MaskUnionIntersection ==
    (fn = "combine_masks" /\ ret.called) =>
        IF args = <<>>
        THEN ret.value = NoneT
        ELSE /\ ret.value.h = args[1].mask.h
             /\ ret.value.w = args[1].mask.w
             /\ \A c \in DOMAIN ret.value.a :
                   LET inside == IF insideWeights(args, c) = {}
                                 THEN One
                                 ELSE greatest(insideWeights(args, c))
                   IN  /\ ret.value.a[c]
                            = least({inside} \cup {One - v : v \in outsideWeights(args, c)})
                       /\ (outsideWeights(args, c) = {}) => ret.value.a[c] = inside
                       /\ (One \in outsideWeights(args, c)) => ret.value.a[c] = 0

\* An inside mask and an outside mask combined, the result neither empty nor full.
C7_Witness ==
    /\ fn = "combine_masks"
    /\ ret.called
    /\ Len(args) = 2
    /\ ~args[1].inverted
    /\ args[2].inverted
    /\ maxOf(args[1].mask) > 1
    /\ ret.value.a[<<0, 0>>] = 0
    /\ ret.value.a[<<0, 1>>] \in 1..(One - 1)

\* ------------------------------------------------------------------- C8
\* The input of a blend brought to the size of the model output.
sizeMatched(inputSamples, n) ==
    [i \in 1..n |-> inputSamples[((i - 1) \div (n \div Len(inputSamples))) + 1]]
distance(a, b) == IF a >= b THEN a - b ELSE b - a

\* C8: applyStrengthBlending returns the model output unchanged when the
\* operation does not support strength, has no strength, or has strength 1.0;
\* with an input image and a strength s below 1.0 every sample is
\* s * output + (1 - s) * input to the nearest whole number, so at s = 0 it is
\* the size-matched input, and a larger strength never moves a sample away
\* from the model output.
C8_StrengthBlendBoundary ==
    (fn = "applyStrengthBlending" /\ ret.called) =>
        LET op == args.operation
            out == valueOf(args.img)
            r == valueOf(ret.value)
        IN  IF ~supportsStrength(op) \/ op.strength = Null \/ op.strength >= 100
            THEN ret.value = args.img
            ELSE (args.inputImg # NoImage) =>
                 LET in == sizeMatched(valueOf(args.inputImg), Len(out))
                 IN  /\ Len(r) = Len(out)
                     /\ (op.strength = 0) => r = in
                     /\ \A i \in 1..Len(out) :
                           /\ distance(100 * r[i],
                                       op.strength * out[i] + (100 - op.strength) * in[i]) <= 50
                           /\ \A s2 \in {s \in StrengthValues : s >= op.strength} :
                                 distance(valueOf(applyStrengthBlending(
                                              args.img, [op EXCEPT !.strength = s2],
                                              args.inputImg))[i], out[i])
                                     <= distance(r[i], out[i])

\* A blend at strength 0.3 of a model output twice the size of its input.
C8_Witness ==
    /\ fn = "applyStrengthBlending"
    /\ ret.called
    /\ args.operation.operation_type = Upscale
    /\ args.operation.scale = 50
    /\ args.operation.strength = 30
    /\ args.img = Flat(100, 2)
    /\ args.inputImg = Flat(0, 1)
    /\ valueOf(ret.value) = Flat(30, 2).p

\* ------------------------------------------------------------------ C10
\* C10: an operation created without an explicit strength has strength 0.8
\* exactly when it supports strength and no strength otherwise; and whether
\* an operation supports strength is decided by its type and scale alone
\* (Sharpen, Denoise, or Upscale with a scale below 1.0), whatever is later
\* assigned to its strength, masks or rawOutputPath.
C10_DefaultStrengthPolicy ==
    (fn = "AppliedOperation" /\ ret.called) =>
        LET op == ret.value
        IN  /\ supportsStrength(op)
                 = \/ args.operation_type \in {Sharpen, Denoise}
                   \/ /\ args.operation_type = Upscale
                      /\ args.scale # Null
                      /\ args.scale < 100
            /\ (args.strength = Null /\ ret.edits = 0) =>
                  /\ supportsStrength(op) => op.strength = DEFAULT_STRENGTH
                  /\ ~supportsStrength(op) => op.strength = Null
            /\ (args.strength # Null /\ ret.edits = 0) => op.strength = args.strength

\* An Upscale that maintains scale, created without a strength.
C10_Witness ==
    /\ fn = "AppliedOperation"
    /\ ret.called
    /\ ret.edits = 0
    /\ args.operation_type = Upscale
    /\ args.scale = 50
    /\ args.strength = Null
    /\ ret.value.strength = DEFAULT_STRENGTH

\* ------------------------------------------------------------------ C11
\* The model outputs an image was computed from.
RECURSIVE modelTerms(_)
modelTerms(img) ==
    (IF img.tag = "model" THEN {img} ELSE {})
        \cup UNION {modelTerms(img.srcs[k]) : k \in DOMAIN img.srcs}

\* The model outputs the files of a disk were computed from.
inferencesOn(d) == UNION {modelTerms(d[q]) : q \in DOMAIN d}

\* The chain positions startIndex + 1 .. Len(chain) a re-run has to run a
\* model for, in chain order.
positionsFrom(r) ==
    [k \in 1..(Len(r.pre.rawFiles[r.file].operations) - r.startIndex)
        |-> r.startIndex + k]

isPrefix(a, b) == Len(a) <= Len(b) /\ \A k \in 1..Len(a) : a[k] = b[k]

\* C11: reapplyStrength (also when called for a moved strength slider) runs
\* no model: every model output its files are computed from was on disk
\* before the call. rerunOperationChain(file, i) runs no model for an
\* operation before index i, and runs a model once, in chain order, for the
\* operation at index i and each one after it: at any point of the re-run the
\* positions it ran a model for are the first of i+1, i+2, ..., and when it
\* returns True they are all of them.
C11_InferenceDuringReplay ==
    /\ (result.kind \in {"reapplyStrength", "applyStrengthChanges"} /\ ~result.touched)
          => inferencesOn(disk) \subseteq inferencesOn(result.pre.disk)
    /\ (call.kind = "rerun") => isPrefix(call.inferred, positionsFrom(call))
    /\ (result.kind = "rerun") => isPrefix(result.inferred, positionsFrom(result))
    /\ (result.kind = "rerun" /\ result.ret = "true")
          => result.inferred = positionsFrom(result)

\* A chain of two operations re-run from its second operation.
C11_Witness ==
    /\ result.kind = "rerun"
    /\ result.ret = "true"
    /\ result.startIndex = 1
    /\ Len(result.pre.rawFiles[result.file].operations) = 2
    /\ result.inferred = <<2>>

\* ------------------------------------------------------------------ C12
\* An operation's raw output can be read from a disk.
rawAvailable(op, d) == op.rawOutputPath # NoPath /\ op.rawOutputPath \in DOMAIN d

\* Blend and scale of every operation of ops, in order, none left out.
RECURSIVE appliedAll(_, _, _)
appliedAll(ops, img, d) ==
    IF ops = <<>>
    THEN img
    ELSE appliedAll(Tail(ops),
                    applyScale(applyStrengthBlending(d[Head(ops).rawOutputPath],
                                                     Head(ops), img),
                               Head(ops)),
                    d)

\* C12: reapplyStrength leaves out an operation whose rawOutputPath is unset
\* or names a file that is not there, and goes on: it returns True, the image
\* it saves at the file's new path is the base image with exactly the
\* operations whose raw output is there applied in order, and the operations
\* list is the one it was called with.
C12_MissingCachedArtifact ==
    (result.kind = "reapplyStrength" /\ ~result.touched) =>
        LET file == rawFiles[result.file]
            before == result.pre.rawFiles[result.file]
            there == SelectSeq(file.operations,
                               LAMBDA op : rawAvailable(op, result.pre.disk))
        IN  /\ result.ret = "true"
            /\ file.operations = before.operations
            /\ file.path \in DOMAIN disk
            /\ disk[file.path] = appliedAll(there, BaseImage, result.pre.disk)

\* A replay over a chain whose first raw output was swept from the cache and
\* whose later one is there.
C12_Witness ==
    /\ result.kind = "reapplyStrength"
    /\ ~result.touched
    /\ result.ret = "true"
    /\ \E i, j \in 1..Len(rawFiles[result.file].operations) :
          /\ i < j
          /\ rawFiles[result.file].operations[i].rawOutputPath # NoPath
          /\ ~rawAvailable(rawFiles[result.file].operations[i], result.pre.disk)
          /\ rawAvailable(rawFiles[result.file].operations[j], result.pre.disk)

\* ------------------------------------------------------------------ C13
\* The shapes of the images of the cache. A raw output is what a model gave
\* for a rendered image; a rendered image is the base image, or a raw output,
\* or a raw output blended with a rendered image (resized to it when the
\* sizes differ), either of them scaled or not.
RECURSIVE isRendered(_)
isRaw(img) == img.tag = "model" /\ isRendered(img.srcs[1])
isPreImage(img) ==
    isRendered(IF img.tag = "cubic" THEN img.srcs[1] ELSE img)
isBlended(img) ==
    img.tag = "addWeighted" /\ isRaw(img.srcs[1]) /\ isPreImage(img.srcs[2])
isRendered(img) ==
    \/ img.tag = "base"
    \/ isRaw(img)
    \/ isBlended(img)
    \/ (img.tag = "area" /\ (isRaw(img.srcs[1]) \/ isBlended(img.srcs[1])))

\* C13: the steps of an operation come in the order raw output (written to
\* the raw path when the operation supports strength), blend against the
\* image before the operation, scale, save and set path. Every raw file of
\* the cache holds an unblended, unscaled model output at all times; every
\* rendered file is built with the blend inside the scale and the raw output
\* inside the blend; and right after run / runOnExisting returned a file, the
\* image at its path is scale(blend(raw output, image before the operation))
\* for its last operation, whose raw path holds that raw output exactly when
\* the operation supports strength.
C13_FixedPostProcessingOrder ==
    /\ \A q \in DOMAIN disk :
          /\ (q.kind = "raw") => isRaw(disk[q])
          /\ (q.kind \in {"img", "reset"}) => isRendered(disk[q])
    /\ (result.kind \in {"run", "runOnExisting"} /\ result.ret = "file" /\ ~result.touched) =>
          LET file == rawFiles[result.file]
              op == file.operations[Len(file.operations)]
              inputPath == IF result.kind = "run"
                           THEN BasePath
                           ELSE result.pre.rawFiles[result.file].path
              inputImg == result.pre.disk[inputPath]
          IN  /\ isRaw(op.modelOutput)
              /\ op.modelOutput.srcs[1] = inputImg
              /\ disk[file.path]
                    = applyScale(applyStrengthBlending(op.modelOutput, op, inputImg), op)
              /\ supportsStrength(op) => /\ op.rawOutputPath # NoPath
                                         /\ disk[op.rawOutputPath] = op.modelOutput
              /\ ~supportsStrength(op) => op.rawOutputPath = NoPath

\* An Upscale that keeps the size, added to a file: its output is blended
\* and then scaled.
C13_Witness ==
    /\ result.kind = "runOnExisting"
    /\ result.ret = "file"
    /\ ~result.touched
    /\ LET file == rawFiles[result.file]
           op == file.operations[Len(file.operations)]
       IN  /\ op.operation_type = Upscale
           /\ op.scale = 50
           /\ op.strength = DEFAULT_STRENGTH
           /\ disk[file.path].tag = "area"
           /\ disk[file.path].srcs[1].tag = "addWeighted"
           /\ disk[op.rawOutputPath].tag = "model"

\* ------------------------------------------------------------------ C14
\* C14: no reapplyStrength of the UI thread (the debounce timer's
\* _applyStrengthChanges) reads or writes the operations and path of an
\* OutputFile while a call of the worker thread on the same file
\* (runOnExisting, rerunOperationChain) is between its first read of the file
\* and its last write to it.
C14_NoConcurrentOperations ==
    ~ /\ pc \in {"tiles", "post"}
      /\ call.kind \in {"runOnExisting", "rerun"}
      /\ call.touched
      /\ result.kind \in {"reapplyStrength", "applyStrengthChanges"}
      /\ result.file = call.file

\* ------------------------------------------------------------------ C15
\* The operations of every chain, as <<file, index>>.
chainEntries ==
    {e \in (1..Len(rawFiles)) \X (1..MaxCalls) : e[2] <= Len(rawFiles[e[1]].operations)}
operationAt(e) == rawFiles[e[1]].operations[e[2]]

\* C15: cache writes for different results go to different paths, also
\* within one clock second: two operations whose raw model outputs differ
\* never have the same rawOutputPath, and the raw file an operation refers to
\* holds that operation's raw output as long as it is there.
C15_CachePathUniqueness ==
    \A e1 \in chainEntries, e2 \in chainEntries :
        LET a == operationAt(e1)
            b == operationAt(e2)
        IN  /\ (a.rawOutputPath # NoPath /\ b.rawOutputPath # NoPath
                  /\ a.modelOutput # b.modelOutput)
                 => a.rawOutputPath # b.rawOutputPath
            /\ (a.rawOutputPath \in DOMAIN disk) => disk[a.rawOutputPath] = a.modelOutput

\* ------------------------------------------------------------------ C16
\* C16: choosing inside or outside for a mask in the model dialog of a new
\* operation sets the flag for that operation only: in the step that starts
\* the run, the (label, inverted) pairs of the masks of every operation that
\* is already in a chain stay as they were.
C16_MaskInversionIsolation ==
    [][(pc = "idle" /\ pc' = "load" /\ call'.kind \in {"run", "runOnExisting"})
          => \A e \in chainEntries :
                maskKey(operationAt(e).masks, inverted')
                    = maskKey(operationAt(e).masks, inverted)]_vars

\* ------------------------------------------------------------------ C17
\* C17: a selector of an existing operation that closes with a selection other
\* than the one it opened with - a mask added, removed, or only switched
\* between inside and outside - has the chain re-run from that operation.
C17_MaskChangeTriggersRerun ==
    (result.kind = "onOperationMasksChanged") => result.ret = "rerun"

\* ------------------------------------------------------------------ C18
\* C18: an interrupt requested while the tile loop is at work - during any
\* tile, the last one too - makes process_image return None. (The flag is read
\* only at the top of a pass, so a request made while tile k is processed is
\* a request made between the pass of tile k and the next read.)
C18_CancellationLatency ==
    (tp.stage = "done" /\ job.interrupt) => tp.out = NoneT

\* ------------------------------------------------------------------ C20
\* C20: every operation of a chain that supports strength has its
\* rawOutputPath set and the file is on disk, whatever runs, replays and
\* cache sweeps came after the operation was made; an operation that does
\* not support strength has no raw output path.
C20_RawOutputLifetime ==
    \A e \in chainEntries :
        LET op == operationAt(e)
        IN  /\ supportsStrength(op) => (op.rawOutputPath # NoPath
                                        /\ op.rawOutputPath \in DOMAIN disk)
            /\ ~supportsStrength(op) => op.rawOutputPath = NoPath

\* ------------------------------------------------------------------ C19
\* C19: when a write of runOnExisting fails after inference, the raw output's
\* or the rendered image's, the file's operations and path are the ones it
\* had before the call.
C19_IOFailureCommitsNothing ==
    (result.kind = "runOnExisting" /\ result.ret = "raised" /\ ~result.touched) =>
        rawFiles[result.file] = result.pre.rawFiles[result.file]

\* ------------------------------------------------------------------ C21
\* C21: the masks of an InputFile that were added with one label have, in the
\* order they were added, the unique labels label, label_1, label_2, ...; and
\* no two masks of the file have the same unique label.
C21_UniqueMaskLabels ==
    (fn = "addMask") =>
        LET masks == ret.value
            earlier(k) == Cardinality({j \in 1..(k - 1) : masks[j].label = masks[k].label})
        IN  /\ \A k \in 1..Len(masks) :
                  masks[k].uniqueLabel = IF earlier(k) = 0
                                         THEN masks[k].label
                                         ELSE withSuffix(masks[k].label, earlier(k))
            /\ \A j \in 1..Len(masks), k \in 1..Len(masks) :
                  (j # k) => masks[j].uniqueLabel # masks[k].uniqueLabel

\* ------------------------------------------------------------------ C22
\* C22: a tile job has total = xtiles * ytiles and a count that is the number
\* of tiles gone through, processed or skipped; 0 <= count <= total and done
\* is true exactly when count >= total; when process_image has ended, a job
\* that was not asked to stop has count = total and done = true, and a job
\* that was asked to stop has done = false.
C22_ProgressAccounting ==
    (job.exists /\ tp # NoProcessor /\ tp.stage \in {"tiles", "done"}) =>
        /\ job.total = tp.xtiles * tp.ytiles
        /\ job.count = tp.k
        /\ 0 <= job.count /\ job.count <= job.total
        /\ job.done <=> (job.count >= job.total)
        /\ (tp.stage = "done" /\ ~job.interrupt) => (job.count = job.total /\ job.done)
        /\ (tp.stage = "done" /\ job.interrupt) => ~job.done

\* ------------------------------------------------------------------ C23
\* The indices removeOperationsFrom can be handed for a chain, the valid ones
\* and those on either side of them.
indicesAround(operations) == (0 - 1)..(Len(operations) + 1)

\* A step of _applyStrengthChanges, which sets the strength of the operation
\* whose slider moved before it calls reapplyStrength.
strengthEdit ==
    \E f \in 1..Len(rawFiles), i \in 1..MaxCalls, s \in StrengthChoices :
        ApplyStrengthChanges(f, i, s)

\* C23: removeOperationsFrom(i) with 0 <= i < length leaves exactly the
\* operations 0..i-1, unchanged and in order, and for any other i leaves the
\* chain as it is; and in every step of run, runOnExisting, reapplyStrength
\* and rerunOperationChain(file, i) no file is dropped and the chain of a
\* file stays as it is, or gets one operation at its end, or loses a suffix
\* (for the first step of rerunOperationChain(file, i): the suffix from i,
\* and no later step of it touches the operations before i).
C23_ChainTruncationAndFrame ==
    [][/\ \A f \in 1..Len(rawFiles) : \A i \in indicesAround(rawFiles[f].operations) :
              LET operations == rawFiles[f].operations
                  after == removeOperationsFrom(rawFiles[f], i)
              IN  /\ after.path = rawFiles[f].path
                  /\ after.operations = IF 0 <= i /\ i < Len(operations)
                                         THEN SubSeq(operations, 1, i)
                                         ELSE operations
       /\ Len(rawFiles') >= Len(rawFiles)
       /\ ~strengthEdit =>
              \A f \in 1..Len(rawFiles) :
                  LET before == rawFiles[f].operations
                      after == rawFiles'[f].operations
                  IN  /\ \/ after = before
                         \/ Len(after) = Len(before) + 1 /\ isPrefix(before, after)
                         \/ Len(after) < Len(before) /\ isPrefix(after, before)
                      /\ (pc = "idle" /\ call'.kind = "rerun" /\ f = call'.file) =>
                             after = SubSeq(before, 1, call'.startIndex)
                      /\ (call.kind = "rerun" /\ f = call.file) =>
                             /\ SubSeq(after, 1, call.startIndex)
                                  = SubSeq(before, 1, call.startIndex)
                             /\ Len(after) >= Len(before)
      ]_vars

\* A re-run from index 1 of a chain of two operations has ended.
C23_Witness ==
    /\ result.kind = "rerun"
    /\ result.ret = "true"
    /\ result.startIndex = 1
    /\ Len(result.pre.rawFiles[result.file].operations) = 2
    /\ Len(rawFiles[result.file].operations) = 2

\* ------------------------------------------------------------------ C24
\* process_tiles: the part of the canvas tile (y, x) is written to, rows
\* py..py+trimmed_y-1 and columns px..px+trimmed_x-1.
writeRegion(p, y, x) ==
    LET sts == actualTileSize(p) * p.scale
        px == x * sts
        py == y * sts
        trimmed_x == IF px + sts > p.output_tensor.w THEN p.output_tensor.w - px ELSE sts
        trimmed_y == IF py + sts > p.output_tensor.h THEN p.output_tensor.h - py ELSE sts
    IN  (py..(py + trimmed_y - 1)) \X (px..(px + trimmed_x - 1))

canvasOf(p) == (0..(p.output_tensor.h - 1)) \X (0..(p.output_tensor.w - 1))
gridOf(p) == (0..(p.ytiles - 1)) \X (0..(p.xtiles - 1))

\* What a pass of the loop over tile (y, x) leaves outside the tile's region
\* is what was there before.
writesWithin(p, after, y, x) ==
    (after # ErrT) =>
        \A c \in canvasOf(p) \ writeRegion(p, y, x) : after.a[c] = p.output_tensor.a[c]

\* C24: once process_tiles has its grid, every write region lies on the
\* canvas and every sample of the canvas is in the region of exactly one
\* tile of the grid; and the pass over a tile, processed or skipped, writes
\* nothing outside its region.
C24_TileGridPartitionsCanvas ==
    (tp # NoProcessor /\ tp.stage = "tiles") =>
        /\ \A t \in gridOf(tp) : writeRegion(tp, t[1], t[2]) \subseteq canvasOf(tp)
        /\ \A c \in canvasOf(tp) :
              Cardinality({t \in gridOf(tp) : c \in writeRegion(tp, t[1], t[2])}) = 1
        /\ (tp.k < tp.xtiles * tp.ytiles) =>
              /\ writesWithin(tp, inferTile(tp, tileY(tp), tileX(tp)), tileY(tp), tileX(tp))
              /\ (tp.mask_tensor # NoneT) =>
                    writesWithin(tp, skipTile(tp, tileY(tp), tileX(tp)), tileY(tp), tileX(tp))

\* A grid of more than one column whose right tiles are trimmed, on a canvas
\* twice the size of the padded image, with a tile written.
C24_Witness ==
    /\ tp # NoProcessor
    /\ tp.stage = "tiles"
    /\ tp.scale = 2
    /\ tp.xtiles >= 2
    /\ tp.output_tensor.w % (actualTileSize(tp) * tp.scale) # 0
    /\ tp.k >= 1

\* ------------------------------------------------------------------ C25
\* What a re-run has to bring back of an operation.
parametersOf(op) ==
    [operation_type |-> op.operation_type, modelPath |-> op.modelPath,
     scale |-> op.scale, masks |-> op.masks, strength |-> op.strength]

\* C25: when rerunOperationChain(file, i) has returned True, the chain is as
\* long as it was before the call and every operation at index >= i has the
\* operation type, model path, scale, mask selection and strength of the
\* operation that was at its index before the call.
C25_ReplayPreservesParameters ==
    (result.kind = "rerun" /\ result.ret = "true" /\ ~result.touched) =>
        LET before == result.pre.rawFiles[result.file].operations
            after == rawFiles[result.file].operations
        IN  /\ Len(after) = Len(before)
            /\ \A k \in (result.startIndex + 1)..Len(before) :
                  parametersOf(after[k]) = parametersOf(before[k])

\* A re-run has returned True that replaced an operation with a mask selection
\* whose strength was not the one a new operation starts with.
C25_Witness ==
    /\ result.kind = "rerun"
    /\ result.ret = "true"
    /\ ~result.touched
    /\ \E k \in (result.startIndex + 1)..Len(rawFiles[result.file].operations) :
          result.pre.rawFiles[result.file].operations[k].masks # {}
    /\ \E k \in (result.startIndex + 1)..Len(rawFiles[result.file].operations) :
          LET op == result.pre.rawFiles[result.file].operations[k]
          IN  supportsStrength(op) /\ op.strength # InitStrength(op.operation_type, Null, op.scale)

\* ------------------------------------------------------------------ C26
\* C26: whenever a runner works on an OutputFile with a mask selection, in a
\* run on the file or in a re-run of its chain, the image it has read has the
\* height and width of the masks, those of the input image.
C26_MaskImageAlignment ==
    (pc \in {"tiles", "post"} /\ call.kind \in {"runOnExisting", "rerun"} /\ call.masks # {}) =>
        call.img.size = maskSize

\* ------------------------------------------------------------------ C27
\* C27: when App.interruptOperation was called for a runner that had no tile
\* job yet, the call raised nothing, and from then on that runner's operation
\* processes no tile and comes to no output.
C27_EarlyCancellationNotLost ==
    (result.kind = "interruptOperation") =>
        /\ result.ret # "raised"
        /\ call.inferred = result.inferred
        /\ pc # "post"

\* ------------------------------------------------------------------ C28
\* C28: every worker queued by one accepted model dialog works on the file
\* that was selected when the dialog was accepted: on that OutputFile when
\* there was one, and otherwise on the base file, making an OutputFile of its
\* own, never on an OutputFile an earlier worker of the batch made.
C28_QueuedOperationsTargetSubmission ==
    (fn = "showModelDialog" /\ call.kind # "none") =>
        IF args.selected # 0
        THEN call.kind = "runOnExisting" /\ call.file = args.selected
        ELSE call.kind = "run"

\* ------------------------------------------------------------------ C29
\* C29: when the debounced strength update has run, the strength of an
\* operation differs from what it was before the update only if the user had
\* moved that operation's own slider.
C29_StrengthEditsScoped ==
    (fn = "operationWidgets") =>
        \A i \in DOMAIN ret.value.strength :
            (ret.value.strength[i] # ret.value.before[i]) => i \in ret.value.movedBefore

\* ------------------------------------------------------------------ C30
\* C30: for every tile size and tile padding the model dialog offers,
\* tileSize - 2 * tilePadding is positive, and process_tiles gets its grid
\* of tiles.
C30_SelectableTileConfigurationsValid ==
    (fn = "process_tiles" /\ ret.called) =>
        /\ actualTileSize(args) > 0
        /\ ret.value.raised = "none"
        /\ ret.value.xtiles > 0
        /\ ret.value.ytiles > 0

====
